---- MODULE Spec2Model ----
(***************************************************************************)
(* A model of the ticktick-cli task shorthand parser, date recognizer,     *)
(* record-date resolver and tag utilities (src/src/cli/task.rs).           *)
(*                                                                         *)
(* A Rust String is a sequence of one-character strings; a raw input line  *)
(* is the sequence of its whitespace-separated tokens (what                *)
(* split_whitespace yields), a token being a non-empty string without      *)
(* whitespace.  An Option<T> is <<>> (None) or <<v>> (Some(v)).  A         *)
(* NaiveDate is a record [year, month, day].                               *)
(***************************************************************************)
EXTENDS Integers, Sequences, FiniteSets, TLC

VARIABLES
    today,      \* Local::now().date_naive(), read once per command
    pc,         \* "idle" before the command ran, then the name of the function run
    raw,        \* the input line, as its whitespace tokens
    flag,       \* parse_when of parse_shorthand_with_when
    title,      \* extract_due_date_from_input: the cleaned title, as its tokens
    date,       \* extract_due_date_from_input: Option<NaiveDate>
    parsed,     \* parse_shorthand_with_when: ShorthandFilters
    task,       \* a Task record read from the API: due_date, start_date, tags
    required,   \* task_has_all_tags: required_tags
    when,       \* date_window_for: the TaskWhenFilter
    tz,         \* Local: the time zone of the machine
    args,       \* task_add: TaskAddArgs as given on the command line
    env,        \* task_add: what the stored config and the API answer
    args_tags,  \* merge_tags: args.tags, the tags of the command line, before the call
    shorthand_tags, \* merge_tags: shorthand.tags, the tags of the markers
    result,     \* the value returned by the record/tag/window function run
    csrf_token, \* login: the CsrfToken issued with the authorization URL
    requests,   \* wait_for_code: the HTTP requests that reached the local server
    thread,     \* wait_for_code: the position of the spawned thread
    channel,    \* wait_for_code: the mpsc channel from the thread to login
    auth_code,  \* login: the code returned by wait_for_code
    exchanges,  \* login: the codes sent to the token endpoint or the broker
    stored,     \* AppConfig: the stored config
    outcome,    \* login: the Result it returned, None while it runs
    broker_key, \* auth broker: ctx.var("BROKER_API_KEY"), None when it is not set
    broker_request, \* auth broker: the POST request received
    response,   \* auth broker: the response returned, None before
    upstream    \* auth broker: the bodies sent to TICKTICK_TOKEN_URL

login_vars == <<csrf_token, requests, thread, channel, auth_code, exchanges, stored, outcome>>

broker_vars == <<broker_key, broker_request, response, upstream>>

vars == <<today, pc, raw, flag, title, date, parsed, task, required, when, tz, args, env,
          args_tags, shorthand_tags, result, login_vars, broker_vars>>

(***************************************************************************)
(* Option<T>                                                               *)
(***************************************************************************)
None == <<>>
Some(v) == <<v>>
IsSome(o) == Len(o) = 1
IsNone(o) == Len(o) = 0
Unwrap(o) == o[1]

(***************************************************************************)
(* Characters and strings                                                  *)
(***************************************************************************)
DigitSeq == <<"0", "1", "2", "3", "4", "5", "6", "7", "8", "9">>
UpperSeq == <<"A", "B", "C", "D", "E", "F", "G", "H", "I", "J", "K", "L", "M",
              "N", "O", "P", "Q", "R", "S", "T", "U", "V", "W", "X", "Y", "Z">>
LowerSeq == <<"a", "b", "c", "d", "e", "f", "g", "h", "i", "j", "k", "l", "m",
              "n", "o", "p", "q", "r", "s", "t", "u", "v", "w", "x", "y", "z">>
Range(s) == {s[i] : i \in DOMAIN s}
DigitChars == Range(DigitSeq)
UpperChars == Range(UpperSeq)
LowerChars == Range(LowerSeq)

\* char::is_ascii_digit, and the digit's value
is_ascii_digit(c) == c \in DigitChars
DigitValues == [c \in DigitChars |-> (CHOOSE i \in DOMAIN DigitSeq : DigitSeq[i] = c) - 1]
DigitVal(c) == DigitValues[c]

\* char::is_ascii_alphanumeric
AlphanumericChars == DigitChars \cup UpperChars \cup LowerChars
is_ascii_alphanumeric(c) == c \in AlphanumericChars

\* char::to_ascii_lowercase: only A-Z change
LowerOf == [c \in UpperChars |-> LowerSeq[CHOOSE i \in DOMAIN UpperSeq : UpperSeq[i] = c]]
char_to_ascii_lowercase(c) == IF c \in UpperChars THEN LowerOf[c] ELSE c

RECURSIVE to_ascii_lowercase(_)
\* str::to_ascii_lowercase
to_ascii_lowercase(s) ==
    IF s = <<>> THEN <<>>
    ELSE <<char_to_ascii_lowercase(Head(s))>> \o to_ascii_lowercase(Tail(s))

RECURSIVE StrFrom(_, _)
StrFrom(s, i) == IF i > Len(s) THEN <<>> ELSE <<SubSeq(s, i, i)>> \o StrFrom(s, i + 1)
\* a string literal of the source as its character sequence
Str(s) == StrFrom(s, 1)

\* str::eq_ignore_ascii_case
eq_ignore_ascii_case(a, b) == to_ascii_lowercase(a) = to_ascii_lowercase(b)

\* str::starts_with(char)
starts_with(s, c) == Len(s) >= 1 /\ s[1] = c

\* str::strip_prefix(char): Option<&str>
strip_prefix(s, c) == IF starts_with(s, c) THEN Some(Tail(s)) ELSE None

\* str::strip_suffix(&str): Option<&str>
strip_suffix(s, suf) ==
    IF Len(s) >= Len(suf) /\ SubSeq(s, Len(s) - Len(suf) + 1, Len(s)) = suf
    THEN Some(SubSeq(s, 1, Len(s) - Len(suf)))
    ELSE None

\* Option::or_else
or_else(o, alt) == IF IsSome(o) THEN o ELSE alt

\* the number of occurrences of the character c in s: s.matches(c).count()
CountChar(s, c) == Cardinality({i \in DOMAIN s : s[i] = c})

RECURSIVE split(_, _)
\* str::split(char): the parts between the separators, empty parts included
split(s, c) ==
    IF \A i \in DOMAIN s : s[i] # c THEN <<s>>
    ELSE LET k == CHOOSE i \in DOMAIN s : s[i] = c /\ \A j \in 1..(i - 1) : s[j] # c
         IN  <<SubSeq(s, 1, k - 1)>> \o split(SubSeq(s, k + 1, Len(s)), c)

(***************************************************************************)
(* Integer parsing: str::parse::<u32>() and str::parse::<i32>()            *)
(***************************************************************************)
IsDigits(s) == Len(s) >= 1 /\ \A i \in DOMAIN s : is_ascii_digit(s[i])

RECURSIVE DigitsValue(_)
DigitsValue(s) ==
    IF s = <<>> THEN 0
    ELSE DigitsValue(SubSeq(s, 1, Len(s) - 1)) * 10 + DigitVal(s[Len(s)])

\* An optional '+', then at least one digit, nothing else.  Values are exact up
\* to nine digits; a longer digit string (a value of 10^9 or more, or an
\* overflow) is reported as None: every u32 parsed here is a month or a day
\* handed to from_ymd_opt or to the 1..=31 check, which reject such a value
\* as they reject the overflow.
parse_u32(s) ==
    LET body == IF starts_with(s, "+") THEN Tail(s) ELSE s
    IN  IF IsDigits(body) /\ Len(body) <= 9 THEN Some(DigitsValue(body)) ELSE None

\* An optional '+' or '-', then at least one digit, nothing else (exact up to
\* nine digits; parse_year_token keeps only values of tokens of length 2 or 4).
parse_i32(s) ==
    LET neg == starts_with(s, "-")
        body == IF neg \/ starts_with(s, "+") THEN Tail(s) ELSE s
    IN  IF ~(IsDigits(body) /\ Len(body) <= 9) THEN None
        ELSE IF neg THEN Some(0 - DigitsValue(body)) ELSE Some(DigitsValue(body))

(***************************************************************************)
(* chrono::NaiveDate: the proleptic Gregorian calendar                     *)
(***************************************************************************)
IsLeapYear(y) == (y % 4 = 0 /\ y % 100 # 0) \/ y % 400 = 0

DaysInMonth(y, m) ==
    IF m = 2 THEN (IF IsLeapYear(y) THEN 29 ELSE 28)
    ELSE IF m \in {4, 6, 9, 11} THEN 30 ELSE 31

YMD(y, m, d) == [year |-> y, month |-> m, day |-> d]

\* NaiveDate::from_ymd_opt: None unless the day exists
from_ymd_opt(y, m, d) ==
    IF m >= 1 /\ m <= 12 /\ d >= 1 /\ d <= DaysInMonth(y, m)
    THEN Some(YMD(y, m, d))
    ELSE None

\* days from 1970-01-01 to the date (negative before it)
DaysFromCivil(dt) ==
    LET y   == IF dt.month <= 2 THEN dt.year - 1 ELSE dt.year
        era == y \div 400
        yoe == y - era * 400
        mp  == IF dt.month > 2 THEN dt.month - 3 ELSE dt.month + 9
        doy == (153 * mp + 2) \div 5 + dt.day - 1
        doe == yoe * 365 + yoe \div 4 - yoe \div 100 + doy
    IN  era * 146097 + doe - 719468

\* the date that many days from 1970-01-01
CivilFromDays(n) ==
    LET z   == n + 719468
        era == z \div 146097
        doe == z - era * 146097
        yoe == (doe - doe \div 1460 + doe \div 36524 - doe \div 146096) \div 365
        doy == doe - (365 * yoe + yoe \div 4 - yoe \div 100)
        mp  == (5 * doy + 2) \div 153
        d   == doy - (153 * mp + 2) \div 5 + 1
        m   == IF mp < 10 THEN mp + 3 ELSE mp - 9
    IN  YMD(IF m <= 2 THEN yoe + era * 400 + 1 ELSE yoe + era * 400, m, d)

\* NaiveDate + Duration::days(n), NaiveDate - Duration::days(n)
AddDays(dt, n) == CivilFromDays(DaysFromCivil(dt) + n)

\* the derived Ord of NaiveDate: a >= b
DateGe(a, b) ==
    \/ a.year > b.year
    \/ a.year = b.year /\ a.month > b.month
    \/ a.year = b.year /\ a.month = b.month /\ a.day >= b.day

\* Datelike::weekday().num_days_from_monday(): Mon = 0 .. Sun = 6
\* (1970-01-01 was a Thursday)
num_days_from_monday(dt) == (DaysFromCivil(dt) + 3) % 7

(***************************************************************************)
(* The date expression recognizer                                          *)
(***************************************************************************)
\* the closure of normalize_date_token: the characters trim_matches drops
IsTrimmed(ch) == ~is_ascii_alphanumeric(ch) /\ ch # "/" /\ ch # "-"

RECURSIVE trim_start(_)
trim_start(s) ==
    IF s # <<>> /\ IsTrimmed(Head(s)) THEN trim_start(Tail(s)) ELSE s

RECURSIVE trim_end(_)
trim_end(s) ==
    IF s # <<>> /\ IsTrimmed(s[Len(s)]) THEN trim_end(SubSeq(s, 1, Len(s) - 1)) ELSE s

normalize_date_token(token) == to_ascii_lowercase(trim_end(trim_start(token)))

infer_year_for_month_day(month, day, now) ==
    LET this_year == from_ymd_opt(now.year, month, day)
    IN  IF IsNone(this_year) THEN None
        ELSE IF DateGe(Unwrap(this_year), now) THEN this_year
        ELSE from_ymd_opt(now.year + 1, month, day)

\* parse_year_token without the match on the length: every number is a year
parse_year_token_any_length(token) ==
    LET year == parse_i32(token)
    IN  IF IsNone(year) THEN None
        ELSE IF Len(token) = 2 THEN Some(2000 + Unwrap(year))
        ELSE year

\* parse_year_token reading a two-digit year in the century before
parse_year_token_last_century(token) ==
    LET year == parse_i32(token)
    IN  IF IsNone(year) THEN None
        ELSE IF Len(token) = 2 THEN Some(1900 + Unwrap(year))
        ELSE IF Len(token) = 4 THEN Some(Unwrap(year))
        ELSE None

parse_year_token(token) ==
    LET year == parse_i32(token)
    IN  IF IsNone(year) THEN None
        ELSE IF Len(token) = 2 THEN Some(2000 + Unwrap(year))
        ELSE IF Len(token) = 4 THEN Some(Unwrap(year))
        ELSE None

parse_day_token(token) ==
    LET stripped == or_else(strip_suffix(token, <<"s", "t">>),
                    or_else(strip_suffix(token, <<"n", "d">>),
                    or_else(strip_suffix(token, <<"r", "d">>),
                            strip_suffix(token, <<"t", "h">>))))
        day_text == IF IsSome(stripped) THEN Unwrap(stripped) ELSE token
        day == parse_u32(day_text)
    IN  IF IsNone(day) THEN None
        ELSE IF Unwrap(day) >= 1 /\ Unwrap(day) <= 31 THEN day
        ELSE None

\* the arms of the match of parse_month_token: the names of month m
MonthNames ==
    << {Str("jan"), Str("january")}, {Str("feb"), Str("february")},
       {Str("mar"), Str("march")}, {Str("apr"), Str("april")}, {Str("may")},
       {Str("jun"), Str("june")}, {Str("jul"), Str("july")}, {Str("aug"), Str("august")},
       {Str("sep"), Str("sept"), Str("september")}, {Str("oct"), Str("october")},
       {Str("nov"), Str("november")}, {Str("dec"), Str("december")} >>

parse_month_token(token) ==
    IF \E m \in DOMAIN MonthNames : token \in MonthNames[m]
    THEN Some(CHOOSE m \in DOMAIN MonthNames : token \in MonthNames[m])
    ELSE None

\* the arms of the match of parse_weekday_token: the names of the weekday
\* that is k - 1 days from Monday
WeekdayNames ==
    << {Str("mon"), Str("monday")}, {Str("tue"), Str("tues"), Str("tuesday")},
       {Str("wed"), Str("wednesday")}, {Str("thu"), Str("thurs"), Str("thursday")},
       {Str("fri"), Str("friday")}, {Str("sat"), Str("saturday")},
       {Str("sun"), Str("sunday")} >>

\* a Weekday is its num_days_from_monday: Mon = 0 .. Sun = 6
parse_weekday_token(token) ==
    IF \E k \in DOMAIN WeekdayNames : token \in WeekdayNames[k]
    THEN Some((CHOOSE k \in DOMAIN WeekdayNames : token \in WeekdayNames[k]) - 1)
    ELSE None

\* next_or_same_weekday that never answers today: a full week on instead
next_weekday_after(now, target) ==
    LET today_idx == num_days_from_monday(now)
        target_idx == target
        offset == (target_idx - today_idx + 6) % 7
    IN  AddDays(now, offset + 1)

next_or_same_weekday(now, target) ==
    LET today_idx == num_days_from_monday(now)
        target_idx == target
        offset == (target_idx - today_idx + 7) % 7
    IN  AddDays(now, offset)

\* start_of_next_week counting the seven days from today
start_of_next_week_from_today(now) == AddDays(now, 7)

start_of_next_week(now) ==
    LET start_of_this_week == AddDays(now, 0 - num_days_from_monday(now))
    IN  AddDays(start_of_this_week, 7)

\* a field of a chrono format: min to max ASCII digits
IsField(s, min, max) == Len(s) >= min /\ Len(s) <= max /\ IsDigits(s)

\* NaiveDate::parse_from_str(token, "%Y-%m-%d"): a year of 1 to 4 digits (of any
\* number of digits after an explicit sign; the model reads up to 9), '-', a
\* month of 1 or 2 digits, '-', a day of 1 or 2 digits, and nothing after;
\* then the day must exist.
parse_from_str_ymd(token) ==
    LET neg    == starts_with(token, "-")
        signed == neg \/ starts_with(token, "+")
        parts  == split(IF signed THEN Tail(token) ELSE token, "-")
    IN  IF /\ Len(parts) = 3
           /\ IsField(parts[1], 1, IF signed THEN 9 ELSE 4)
           /\ IsField(parts[2], 1, 2)
           /\ IsField(parts[3], 1, 2)
        THEN from_ymd_opt(IF neg THEN 0 - DigitsValue(parts[1]) ELSE DigitsValue(parts[1]),
                          DigitsValue(parts[2]), DigitsValue(parts[3]))
        ELSE None

parse_numeric_date_token(token, now) ==
    LET iso == parse_from_str_ymd(token)
        separator == IF "/" \in Range(token) THEN Some("/")
                     ELSE IF CountChar(token, "-") = 2 THEN Some("-")
                     ELSE None
    IN  IF IsSome(iso) THEN iso
        ELSE IF IsNone(separator) THEN None
        ELSE LET parts == split(token, Unwrap(separator))
             IN  IF Len(parts) = 2
                 THEN LET month == parse_u32(parts[1])
                          day == parse_u32(parts[2])
                      IN  IF IsNone(month) \/ IsNone(day) THEN None
                          ELSE infer_year_for_month_day(Unwrap(month), Unwrap(day), now)
                 ELSE IF Len(parts) = 3
                 THEN LET month == parse_u32(parts[1])
                          day == parse_u32(parts[2])
                          year == parse_year_token(parts[3])
                      IN  IF IsNone(month) \/ IsNone(day) \/ IsNone(year) THEN None
                          ELSE from_ymd_opt(Unwrap(year), Unwrap(month), Unwrap(day))
                 ELSE None

\* tokens.get(index): positions count from 1 here, from 0 in the source
get(tokens, index) == IF index \in DOMAIN tokens THEN Some(tokens[index]) ELSE None

\* Option<(usize, NaiveDate)> as Some([consumed, date])
parse_month_day_sequence(tokens, index, now) ==
    LET first == get(tokens, index)
        month == IF IsNone(first) THEN None
                 ELSE parse_month_token(normalize_date_token(Unwrap(first)))
        next  == get(tokens, index + 1)
    IN  IF IsNone(month) \/ IsNone(next) THEN None
        ELSE LET second == normalize_date_token(Unwrap(next))
                 bare_year == parse_year_token(second)
             IN  IF IsSome(bare_year)
                 THEN LET d1 == from_ymd_opt(Unwrap(bare_year), Unwrap(month), 1)
                      IN  IF IsNone(d1) THEN None
                          ELSE Some([consumed |-> 2, date |-> Unwrap(d1)])
                 ELSE LET day == parse_day_token(second)
                          year_token == get(tokens, index + 2)
                          year == IF IsNone(year_token) THEN None
                                  ELSE parse_year_token(normalize_date_token(Unwrap(year_token)))
                      IN  IF IsNone(day) THEN None
                          ELSE IF IsSome(year)
                          THEN LET d3 == from_ymd_opt(Unwrap(year), Unwrap(month), Unwrap(day))
                               IN  IF IsNone(d3) THEN None
                                   ELSE Some([consumed |-> 3, date |-> Unwrap(d3)])
                          ELSE LET d2 == infer_year_for_month_day(Unwrap(month), Unwrap(day), now)
                               IN  IF IsNone(d2) THEN None
                                   ELSE Some([consumed |-> 2, date |-> Unwrap(d2)])

\* the filter_map of extract_due_date_from_input: the tokens outside
\* positions index .. index + consumed - 1, in order
\* the filter_map that drops the span, dropping nothing
without_span_kept(tokens, index, consumed) == tokens

without_span(tokens, index, consumed) ==
    SubSeq(tokens, 1, index - 1) \o SubSeq(tokens, index + consumed, Len(tokens))

\* the match on the relative keywords
WordToday == Str("today")
WordTomorrow == Str("tomorrow")
WordNext == Str("next")
WordWeek == Str("week")

relative_date(normalized, now) ==
    IF normalized = WordToday THEN Some(now)
    ELSE IF normalized = WordTomorrow THEN Some(AddDays(now, 1))
    ELSE LET weekday == parse_weekday_token(normalized)
         IN  IF IsNone(weekday) THEN None
             ELSE Some(next_or_same_weekday(now, Unwrap(weekday)))

\* the skip test at the head of the loop body
is_marker_token(token) ==
    starts_with(token, "#") \/ starts_with(token, "~") \/ starts_with(token, "!")

RECURSIVE scan_from(_, _, _)
\* the for loop of extract_due_date_from_input, from position index on
scan_from(tokens, index, now) ==
    IF index > Len(tokens) THEN [title |-> tokens, date |-> None]
    ELSE LET token == tokens[index]
             normalized == normalize_date_token(token)
             seq == parse_month_day_sequence(tokens, index, now)
             numeric == parse_numeric_date_token(normalized, now)
             relative == relative_date(normalized, now)
         IN  IF is_marker_token(token) THEN scan_from(tokens, index + 1, now)
             ELSE IF normalized = <<>> THEN scan_from(tokens, index + 1, now)
             ELSE IF /\ normalized = WordNext
                     /\ index + 1 <= Len(tokens)
                     /\ normalize_date_token(tokens[index + 1]) = WordWeek
             THEN [title |-> without_span(tokens, index, 2),
                   date |-> Some(start_of_next_week(now))]
             ELSE IF IsSome(seq)
             THEN [title |-> without_span(tokens, index, Unwrap(seq).consumed),
                   date |-> Some(Unwrap(seq).date)]
             ELSE IF IsSome(numeric)
             THEN [title |-> without_span(tokens, index, 1), date |-> numeric]
             ELSE IF IsSome(relative)
             THEN [title |-> without_span(tokens, index, 1), date |-> relative]
             ELSE scan_from(tokens, index + 1, now)

\* extract_due_date_from_input with a loop that does not stop at its first
\* success: the last date expression of the line wins
extract_last_due_date(tokens, now) ==
    LET hits == {i \in DOMAIN tokens : IsSome(scan_from(tokens, i, now).date)}
    IN  IF hits = {} THEN [title |-> tokens, date |-> None]
        ELSE scan_from(tokens, CHOOSE i \in hits : \A j \in hits : j <= i, now)

\* (String, Option<NaiveDate>) as [title, date]; the title as its tokens
extract_due_date_from_input(tokens, now) ==
    IF tokens = <<>> THEN [title |-> <<>>, date |-> None]
    ELSE scan_from(tokens, 1, now)

(***************************************************************************)
(* The shorthand extractor                                                 *)
(***************************************************************************)
PriorityHigh == Str("high")
PriorityMedium == Str("medium")
PriorityLow == Str("low")
PriorityNone == {Str("none"), Str("normal")}

\* parse_priority_shorthand without to_ascii_lowercase
parse_priority_shorthand_case_sensitive(token) ==
    LET rest == strip_prefix(token, "!")
        value == Unwrap(rest)
    IN  IF IsNone(rest) THEN None
        ELSE IF value = PriorityHigh THEN Some(5)
        ELSE IF value = PriorityMedium THEN Some(3)
        ELSE IF value = PriorityLow THEN Some(1)
        ELSE IF value \in PriorityNone THEN Some(0)
        ELSE None

parse_priority_shorthand(token) ==
    LET rest == strip_prefix(token, "!")
        value == to_ascii_lowercase(Unwrap(rest))
    IN  IF IsNone(rest) THEN None
        ELSE IF value = PriorityHigh THEN Some(5)
        ELSE IF value = PriorityMedium THEN Some(3)
        ELSE IF value = PriorityLow THEN Some(1)
        ELSE IF value \in PriorityNone THEN Some(0)
        ELSE None

WhenThisWeek == {Str("week"), Str("thisweek"), Str("this-week")}
WordThis == Str("this")

\* parse_when_token without to_ascii_lowercase
parse_when_token_case_sensitive(token) ==
    IF token = WordToday THEN Some("Today")
    ELSE IF token = WordTomorrow THEN Some("Tomorrow")
    ELSE IF token \in WhenThisWeek THEN Some("ThisWeek")
    ELSE None

\* a TaskWhenFilter is "Today", "Tomorrow" or "ThisWeek"
parse_when_token(token) ==
    LET value == to_ascii_lowercase(token)
    IN  IF value = WordToday THEN Some("Today")
        ELSE IF value = WordTomorrow THEN Some("Tomorrow")
        ELSE IF value \in WhenThisWeek THEN Some("ThisWeek")
        ELSE None

RECURSIVE shorthand_from(_, _, _, _)
\* the while loop of parse_shorthand_with_when, from position i on
shorthand_from(tokens, i, parse_when, acc) ==
    IF i > Len(tokens) THEN acc
    ELSE LET token == tokens[i]
             priority == parse_priority_shorthand(token)
             list == strip_prefix(token, "~")
             tag == strip_prefix(token, "#")
             when_token == parse_when_token(token)
         IN  IF IsSome(priority)
             THEN shorthand_from(tokens, i + 1, parse_when, [acc EXCEPT !.priority = priority])
             ELSE IF IsSome(list) /\ Unwrap(list) # <<>>
             THEN shorthand_from(tokens, i + 1, parse_when, [acc EXCEPT !.list = list])
             ELSE IF IsSome(tag) /\ Unwrap(tag) # <<>>
             THEN shorthand_from(tokens, i + 1, parse_when,
                                 [acc EXCEPT !.tags = Append(@, Unwrap(tag))])
             ELSE IF /\ parse_when
                     /\ eq_ignore_ascii_case(token, WordThis)
                     /\ i + 1 <= Len(tokens)
                     /\ eq_ignore_ascii_case(tokens[i + 1], WordWeek)
             THEN shorthand_from(tokens, i + 2, parse_when, [acc EXCEPT !.when = Some("ThisWeek")])
             ELSE IF parse_when /\ IsSome(when_token)
             THEN shorthand_from(tokens, i + 1, parse_when, [acc EXCEPT !.when = when_token])
             ELSE shorthand_from(tokens, i + 1, parse_when,
                                 [acc EXCEPT !.terms = Append(@, token)])

\* ShorthandFilters::default()
DefaultFilters ==
    [priority |-> None, list |-> None, tags |-> <<>>, when |-> None, terms |-> <<>>]

\* parse_shorthand_with_when that ignores its flag: temporal words are always
\* consumed
parse_shorthand_always_when(tokens, parse_when) ==
    shorthand_from(tokens, 1, TRUE, DefaultFilters)

\* parse_shorthand_with_when where the first list marker wins, not the last
parse_shorthand_first_list(tokens, parse_when) ==
    LET r == shorthand_from(tokens, 1, parse_when, DefaultFilters)
        lists == {i \in DOMAIN tokens : /\ IsNone(parse_priority_shorthand(tokens[i]))
                                        /\ IsSome(strip_prefix(tokens[i], "~"))
                                        /\ Unwrap(strip_prefix(tokens[i], "~")) # <<>>}
    IN  IF lists = {} THEN r
        ELSE [r EXCEPT !.list = strip_prefix(tokens[CHOOSE i \in lists : \A j \in lists : i <= j], "~")]

\* parse_shorthand_with_when that pushes a tag only when it is not yet there
parse_shorthand_unique_tags(tokens, parse_when) ==
    LET r == shorthand_from(tokens, 1, parse_when, DefaultFilters)
        first == {k \in DOMAIN r.tags : \A j \in 1..(k - 1) : r.tags[j] # r.tags[k]}
        kept == SelectSeq([k \in DOMAIN r.tags |-> <<k, r.tags[k]>>],
                          LAMBDA e : e[1] \in first)
    IN  [r EXCEPT !.tags = [k \in DOMAIN kept |-> kept[k][2]]]

parse_shorthand_with_when(tokens, parse_when) ==
    shorthand_from(tokens, 1, parse_when, DefaultFilters)

parse_shorthand(tokens) == parse_shorthand_with_when(tokens, TRUE)

\* parse_task_add_shorthand with the temporal phrases recognized
parse_task_add_shorthand_with_when(tokens) == parse_shorthand_with_when(tokens, TRUE)

parse_task_add_shorthand(tokens) == parse_shorthand_with_when(tokens, FALSE)

(***************************************************************************)
(* Record dates, tags and date windows                                     *)
(***************************************************************************)
\* Long division of the decimal digit string s by k (1 <= k <= 86400), digit by
\* digit, so that no intermediate value leaves 32 bits: the remainder, and the
\* quotient's digit string (leading zeros kept).
RECURSIVE RemDigits(_, _)
RemDigits(s, k) ==
    IF s = <<>> THEN 0
    ELSE (RemDigits(SubSeq(s, 1, Len(s) - 1), k) * 10 + DigitVal(s[Len(s)])) % k

QuotDigits(s, k) ==
    [i \in 1..Len(s) |->
        DigitSeq[((RemDigits(SubSeq(s, 1, i - 1), k) * 10 + DigitVal(s[i])) \div k) + 1]]

DivDigits(s, k) == [q |-> QuotDigits(s, k), r |-> RemDigits(s, k)]

RECURSIVE StripZeros(_)
StripZeros(s) == IF Len(s) > 1 /\ Head(s) = "0" THEN StripZeros(Tail(s)) ELSE s

\* str::parse::<i64>() succeeds: an optional sign and 1 to 18 digits (a value of
\* 19 digits may overflow; the model writes no such value)
is_i64(value) ==
    LET body == IF starts_with(value, "-") \/ starts_with(value, "+") THEN Tail(value) ELSE value
    IN  IsDigits(body) /\ Len(body) <= 18

\* DateTime::<Utc>::from_timestamp(epoch, 0) and from_timestamp_millis(epoch),
\* then date_naive(): the UTC day floor(seconds / 86400) after 1970-01-01 of an
\* epoch value that parsed as an i64; None when the day is outside NaiveDate
\* (beyond the year 262142).
epoch_date(value, millis) ==
    LET neg == starts_with(value, "-")
        body == IF neg \/ starts_with(value, "+") THEN Tail(value) ELSE value
        secs == IF millis THEN DivDigits(body, 1000) ELSE [q |-> body, r |-> 0]
        days == DivDigits(secs.q, 86400)
        q == StripZeros(days.q)
        exact == secs.r = 0 /\ days.r = 0
    IN  IF Len(q) > 8 THEN None
        ELSE IF DigitsValue(q) > 95000000 THEN None
        ELSE IF neg
             THEN Some(CivilFromDays(IF exact THEN 0 - DigitsValue(q) ELSE 0 - DigitsValue(q) - 1))
             ELSE Some(CivilFromDays(DigitsValue(q)))

\* the first position of s that holds a character of S, Len(s) + 1 when none does
FirstOf(s, S) ==
    IF \E i \in DOMAIN s : s[i] \in S
    THEN CHOOSE i \in DOMAIN s : s[i] \in S /\ \A j \in 1..(i - 1) : s[j] \notin S
    ELSE Len(s) + 1

\* a UTC offset: Z (RFC 3339 only), or a sign, two digits of hours up to 23, a
\* colon (required in RFC 3339, optional for %z) and two digits of minutes up
\* to 59
IsOffset(off, rfc) ==
    \/ rfc /\ off \in {<<"Z">>, <<"z">>}
    \/ /\ Len(off) \in {5, 6}
       /\ off[1] \in {"+", "-"}
       /\ IsField(SubSeq(off, 2, 3), 2, 2) /\ DigitsValue(SubSeq(off, 2, 3)) <= 23
       /\ (Len(off) = 6) => off[4] = ":"
       /\ (Len(off) = 5) => ~rfc
       /\ IsField(SubSeq(off, Len(off) - 1, Len(off)), 2, 2)
       /\ DigitsValue(SubSeq(off, Len(off) - 1, Len(off))) <= 59

\* A timestamp with a UTC offset, as DateTime::parse_from_rfc3339 reads it
\* (rfc = TRUE: a 4-digit year, 2-digit fields, 'T' or 't', an optional
\* fraction, offset Z or +HH:MM) and as DateTime::parse_from_str reads it with
\* "%Y-%m-%dT%H:%M:%S%.f%z" or "%Y-%m-%dT%H:%M:%S%z" (rfc = FALSE: fields of 1
\* or 2 digits, an unsigned year of 1 to 4, offset +HHMM or +HH:MM; fraction
\* says whether %.f is in the format).  date_naive() of the result is the
\* date as written: the local date at that offset.
parse_offset_datetime(value, rfc, fraction) ==
    LET iT     == FirstOf(value, IF rfc THEN {"T", "t"} ELSE {"T"})
        dparts == split(SubSeq(value, 1, iT - 1), "-")
        rest   == SubSeq(value, iT + 1, Len(value))
        iO     == FirstOf(rest, {"+", "-", "Z", "z"})
        tparts == split(SubSeq(rest, 1, iO - 1), ":")
        sparts == split(tparts[3], ".")
        lo     == IF rfc THEN 2 ELSE 1
    IN  IF /\ iT <= Len(value)
           /\ Len(dparts) = 3
           /\ IsField(dparts[1], IF rfc THEN 4 ELSE 1, 4)
           /\ IsField(dparts[2], lo, 2)
           /\ IsField(dparts[3], lo, 2)
           /\ Len(tparts) = 3
           /\ IsField(tparts[1], lo, 2) /\ DigitsValue(tparts[1]) <= 23
           /\ IsField(tparts[2], lo, 2) /\ DigitsValue(tparts[2]) <= 59
           /\ Len(sparts) \in {1, 2}
           /\ IsField(sparts[1], lo, 2) /\ DigitsValue(sparts[1]) <= 60
           /\ (Len(sparts) = 2) => ((rfc \/ fraction) /\ IsDigits(sparts[2]))
           /\ IsOffset(SubSeq(rest, iO, Len(rest)), rfc)
        THEN from_ymd_opt(DigitsValue(dparts[1]), DigitsValue(dparts[2]), DigitsValue(dparts[3]))
        ELSE None

\* value.get(0..10): the first ten bytes, None when there are fewer
prefix10(value) == IF Len(value) >= 10 THEN Some(SubSeq(value, 1, 10)) ELSE None

\* parse_task_date reading every epoch value as seconds
parse_task_date_seconds(value) ==
    IF is_i64(value) THEN epoch_date(value, FALSE)
    ELSE IF IsSome(parse_offset_datetime(value, TRUE, TRUE))
    THEN parse_offset_datetime(value, TRUE, TRUE)
    ELSE IF IsSome(parse_offset_datetime(value, FALSE, TRUE))
    THEN parse_offset_datetime(value, FALSE, TRUE)
    ELSE IF IsSome(parse_offset_datetime(value, FALSE, FALSE))
    THEN parse_offset_datetime(value, FALSE, FALSE)
    ELSE IF IsSome(parse_from_str_ymd(value)) THEN parse_from_str_ymd(value)
    ELSE IF IsNone(prefix10(value)) THEN None
    ELSE parse_from_str_ymd(Unwrap(prefix10(value)))

parse_task_date(value) ==
    IF is_i64(value) THEN epoch_date(value, Len(value) > 10)
    ELSE IF IsSome(parse_offset_datetime(value, TRUE, TRUE))
    THEN parse_offset_datetime(value, TRUE, TRUE)
    ELSE IF IsSome(parse_offset_datetime(value, FALSE, TRUE))
    THEN parse_offset_datetime(value, FALSE, TRUE)
    ELSE IF IsSome(parse_offset_datetime(value, FALSE, FALSE))
    THEN parse_offset_datetime(value, FALSE, FALSE)
    ELSE IF IsSome(parse_from_str_ymd(value)) THEN parse_from_str_ymd(value)
    ELSE IF IsNone(prefix10(value)) THEN None
    ELSE parse_from_str_ymd(Unwrap(prefix10(value)))

\* Option::or
or(o, alt) == IF IsSome(o) THEN o ELSE alt

\* Option::and_then(parse_task_date)
task_due_date(t) ==
    LET value == or(t.due_date, t.start_date)
    IN  IF IsNone(value) THEN None ELSE parse_task_date(Unwrap(value))

\* task_has_all_tags comparing with == instead of eq_ignore_ascii_case
task_has_all_tags_case_sensitive(t, required_tags) ==
    IF IsNone(t.tags) THEN FALSE
    ELSE \A i \in DOMAIN required_tags :
            \E j \in DOMAIN Unwrap(t.tags) : Unwrap(t.tags)[j] = required_tags[i]

task_has_all_tags(t, required_tags) ==
    IF IsNone(t.tags) THEN FALSE
    ELSE \A i \in DOMAIN required_tags :
            \E j \in DOMAIN Unwrap(t.tags) :
                eq_ignore_ascii_case(Unwrap(t.tags)[j], required_tags[i])

\* date_window_for counting the days of the week with num_days_from_sunday
date_window_from_sunday(filter, now) ==
    IF filter = "Today" THEN <<now, now>>
    ELSE IF filter = "Tomorrow" THEN <<AddDays(now, 1), AddDays(now, 1)>>
    ELSE LET start == AddDays(now, 0 - ((num_days_from_monday(now) + 1) % 7))
         IN  <<start, AddDays(start, 6)>>

\* (NaiveDate, NaiveDate) as <<start, end>>
date_window_for(filter, now) ==
    IF filter = "Today" THEN <<now, now>>
    ELSE IF filter = "Tomorrow" THEN <<AddDays(now, 1), AddDays(now, 1)>>
    ELSE LET start == AddDays(now, 0 - num_days_from_monday(now))
         IN  <<start, AddDays(start, 6)>>

\* task_matches_when_filter with an exclusive end of the window
task_matches_before_end(t, filter, now) ==
    LET task_date == task_due_date(t)
        window == date_window_for(filter, now)
    IN  IF IsNone(task_date) THEN FALSE
        ELSE /\ DateGe(Unwrap(task_date), window[1])
             /\ DateGe(window[2], Unwrap(task_date))
             /\ Unwrap(task_date) # window[2]

task_matches_when_filter(t, filter, now) ==
    LET task_date == task_due_date(t)
        window == date_window_for(filter, now)
    IN  IF IsNone(task_date) THEN FALSE
        ELSE DateGe(Unwrap(task_date), window[1]) /\ DateGe(window[2], Unwrap(task_date))

\* merge_tags pushing every extra tag, without the test for a known tag
merge_tags_always_push(existing, extras) == existing \o extras

\* merge_tags comparing with == instead of eq_ignore_ascii_case
RECURSIVE merge_tags_case_sensitive(_, _)
merge_tags_case_sensitive(existing, extras) ==
    IF extras = <<>> THEN existing
    ELSE LET tag == Head(extras)
         IN  merge_tags_case_sensitive(
                 IF ~ \E i \in DOMAIN existing : existing[i] = tag
                 THEN Append(existing, tag) ELSE existing,
                 Tail(extras))

\* existing is the Vec behind &mut: the value is the Vec after the call
RECURSIVE merge_tags(_, _)
merge_tags(existing, extras) ==
    IF extras = <<>> THEN existing
    ELSE LET tag == Head(extras)
         IN  merge_tags(
                 IF ~ \E i \in DOMAIN existing : eq_ignore_ascii_case(existing[i], tag)
                 THEN Append(existing, tag) ELSE existing,
                 Tail(extras))

(***************************************************************************)
(* The due date written for the API                                        *)
(*                                                                         *)
(* Local is modelled by its rule around one change of the clocks: a zone   *)
(* is [offset, rule, at].  offset is the standard offset from UTC in       *)
(* minutes.  rule "fixed": the offset never changes.  rule "gap": on the   *)
(* date at, the clocks go from 00:00 to 01:00, so that local midnight of   *)
(* that date does not exist; the offset is the standard one before and one *)
(* hour more after.  rule "fold": on the date at, the clocks go from 01:00 *)
(* back to 00:00, so that local midnight of that date exists twice, first  *)
(* at one hour more than the standard offset, then at the standard one.    *)
(***************************************************************************)
Zone(offset, rule, at) == [offset |-> offset, rule |-> rule, at |-> at]
Utc == Zone(0, "fixed", YMD(1970, 1, 1))

\* Local.from_local_datetime(midnight of dt): a LocalResult as the sequence of
\* the offsets of its instants: none, one (Single) or two, the earliest
\* instant first (Ambiguous)
from_local_datetime(zone, dt) ==
    IF zone.rule = "fixed" THEN <<zone.offset>>
    ELSE IF dt = zone.at
    THEN (IF zone.rule = "gap" THEN <<>> ELSE <<zone.offset + 60, zone.offset>>)
    ELSE IF (zone.rule = "gap") = DateGe(dt, zone.at) THEN <<zone.offset + 60>>
    ELSE <<zone.offset>>

\* LocalResult::earliest and LocalResult::latest, as Option of the offset
earliest(local_result) == IF local_result = <<>> THEN None ELSE Some(local_result[1])
latest(local_result) == IF local_result = <<>> THEN None ELSE Some(local_result[Len(local_result)])

RECURSIVE pad(_, _)
\* a number zero-padded to width digits, as %Y, %m, %d, %H, %M write it
pad(n, width) ==
    IF width = 0 THEN <<>> ELSE pad(n \div 10, width - 1) \o <<DigitSeq[(n % 10) + 1]>>

\* utc_dt.format("%Y-%m-%dT%H:%M:%S%.3f+0000") of the instant that is minutes
\* after 00:00 of the UTC date dt
format_utc(dt, minutes) ==
    pad(dt.year, 4) \o <<"-">> \o pad(dt.month, 2) \o <<"-">> \o pad(dt.day, 2) \o <<"T">>
    \o pad(minutes \div 60, 2) \o <<":">> \o pad(minutes % 60, 2) \o <<":">> \o pad(0, 2)
    \o <<".">> \o pad(0, 3) \o <<"+", "0", "0", "0", "0">>

\* local_dt.with_timezone(&Utc) of local midnight of dt at an offset, then the
\* format: the UTC instant is local midnight minus the offset
with_timezone_utc(dt, offset) ==
    IF offset > 0 THEN format_utc(AddDays(dt, 0 - 1), 1440 - offset)
    ELSE format_utc(dt, 0 - offset)

\* format_ticktick_due_date taking the latest instant of an ambiguous midnight
format_ticktick_due_date_latest(dt, zone) ==
    LET local_dt == latest(from_local_datetime(zone, dt))
    IN  IF IsNone(local_dt) THEN None
        ELSE Some(with_timezone_utc(dt, Unwrap(local_dt)))

\* Option<String>; the zone is Local of the source
format_ticktick_due_date(dt, zone) ==
    LET local_dt == or(earliest(from_local_datetime(zone, dt)),
                       latest(from_local_datetime(zone, dt)))
    IN  IF IsNone(local_dt) THEN None
        ELSE Some(with_timezone_utc(dt, Unwrap(local_dt)))

(***************************************************************************)
(* task_add                                                                *)
(*                                                                         *)
(* The command line is a record args: title (the words of the title),      *)
(* priority, list, project_id, due_date, start_date, all_day (Options) and *)
(* tags.  What lies outside the program is a record e: config (the stored  *)
(* config holds a login), list_project (the answer of the API to the       *)
(* lookup of a list by name, None for an error), default_project (the      *)
(* default list found among the projects of the API, None for an error),   *)
(* create (create_task succeeds).  The outcome is [error, calls, task]:    *)
(* the error returned, the functions that send requests to the API in the  *)
(* order of their calls, each with the name it was called for, and the     *)
(* Task handed to create_task.                                             *)
(***************************************************************************)
Call(name, arg) == [call |-> name, arg |-> arg]

NotAuthenticated == "Not authenticated. Run 'tt auth login' first."
FormatFailed == "Failed to format inferred due date"
TitleRequired == "Task title required or provide stdin"
ListLookupFailed == "resolve_project_from_list failed"
DefaultListFailed == "infer_default_project_id failed"
CreateFailed == "create_task failed"

\* return Err(..) after the requests of calls
Failed(message, calls) == [error |-> Some(message), calls |-> calls, task |-> None]

\* lines 619-638: the fields of args after the values of the title are merged in
task_add_fields(a, shorthand, inferred_due_date, formatted) ==
    LET use_inferred == IsNone(a.due_date) /\ IsSome(inferred_due_date)
    IN  [priority   |-> IF IsNone(a.priority) THEN shorthand.priority ELSE a.priority,
         list       |-> IF IsNone(a.list) THEN shorthand.list ELSE a.list,
         due_date   |-> IF use_inferred THEN formatted ELSE a.due_date,
         start_date |-> IF use_inferred /\ IsNone(a.start_date) THEN formatted ELSE a.start_date,
         all_day    |-> IF use_inferred /\ IsNone(a.all_day) THEN Some(TRUE) ELSE a.all_day,
         tags       |-> merge_tags(a.tags, shorthand.tags),
         project_id |-> a.project_id]

\* lines 650-675 and 677: the Task is built and handed to create_task
create_task(fields, terms, project_id, calls, e) ==
    [error |-> IF e.create THEN None ELSE Some(CreateFailed),
     calls |-> Append(calls, Call("create_task", terms)),
     task  |-> Some([title      |-> terms,
                     project_id |-> Some(project_id),
                     start_date |-> fields.start_date,
                     due_date   |-> fields.due_date,
                     is_all_day |-> fields.all_day,
                     priority   |-> or(fields.priority, Some(0)),
                     tags       |-> IF fields.tags = <<>> THEN None ELSE Some(fields.tags)])]

\* lines 468-482: resolve_project_from_list is called for the list
ListLookup(fields) == Call("resolve_project_from_list", Unwrap(fields.list))

\* line 647: infer_default_project_id is called
DefaultLookup == Call("infer_default_project_id", <<>>)

\* lines 645-648: resolve_project_id, then infer_default_project_id, then the Task
resolve_and_create(fields, terms, e) ==
    IF IsSome(fields.project_id)
    THEN create_task(fields, terms, Unwrap(fields.project_id), <<>>, e)
    ELSE IF IsSome(fields.list)
    THEN (IF IsNone(e.list_project)
          THEN Failed(ListLookupFailed, <<ListLookup(fields)>>)
          ELSE create_task(fields, terms, Unwrap(e.list_project), <<ListLookup(fields)>>, e))
    ELSE IF IsNone(e.default_project)
    THEN Failed(DefaultListFailed, <<DefaultLookup>>)
    ELSE create_task(fields, terms, Unwrap(e.default_project), <<DefaultLookup>>, e)

\* task_add that builds the Task whatever is left of the title
task_add_any_title(a, now, zone, e) ==
    LET extracted == extract_due_date_from_input(a.title, now)
        shorthand == parse_task_add_shorthand(extracted.title)
        formatted == IF IsSome(extracted.date)
                     THEN format_ticktick_due_date(Unwrap(extracted.date), zone) ELSE None
    IN  IF ~ e.config THEN Failed(NotAuthenticated, <<>>)
        ELSE IF IsNone(a.due_date) /\ IsSome(extracted.date) /\ IsNone(formatted)
        THEN Failed(FormatFailed, <<>>)
        ELSE resolve_and_create(task_add_fields(a, shorthand, extracted.date, formatted),
                                shorthand.terms, e)

\* task_add where the values of the title win over those of the command line
task_add_title_wins(a, now, zone, e) ==
    LET extracted == extract_due_date_from_input(a.title, now)
        shorthand == parse_task_add_shorthand(extracted.title)
        formatted == IF IsSome(extracted.date)
                     THEN format_ticktick_due_date(Unwrap(extracted.date), zone) ELSE None
        given == [a EXCEPT !.priority = IF IsSome(shorthand.priority) THEN None ELSE @,
                           !.list = IF IsSome(shorthand.list) THEN None ELSE @,
                           !.due_date = IF IsSome(extracted.date) THEN None ELSE @]
    IN  IF ~ e.config THEN Failed(NotAuthenticated, <<>>)
        ELSE IF IsNone(given.due_date) /\ IsSome(extracted.date) /\ IsNone(formatted)
        THEN Failed(FormatFailed, <<>>)
        ELSE IF shorthand.terms = <<>> THEN Failed(TitleRequired, <<>>)
        ELSE resolve_and_create(task_add_fields(given, shorthand, extracted.date, formatted),
                                shorthand.terms, e)

task_add(a, now, zone, e) ==
    LET extracted == extract_due_date_from_input(a.title, now)
        shorthand == parse_task_add_shorthand(extracted.title)
        formatted == IF IsSome(extracted.date)
                     THEN format_ticktick_due_date(Unwrap(extracted.date), zone) ELSE None
    IN  IF ~ e.config THEN Failed(NotAuthenticated, <<>>)
        ELSE IF IsNone(a.due_date) /\ IsSome(extracted.date) /\ IsNone(formatted)
        THEN Failed(FormatFailed, <<>>)
        ELSE IF shorthand.terms = <<>> THEN Failed(TitleRequired, <<>>)
        ELSE resolve_and_create(task_add_fields(a, shorthand, extracted.date, formatted),
                                shorthand.terms, e)

(***************************************************************************)
(* login and wait_for_code                                                 *)
(*                                                                         *)
(* An HTTP request is [parsed, path, query]: whether Url::parse accepts    *)
(* "http://localhost" followed by its URL, then the path and the query     *)
(* pairs, in their order, of the parsed URL.  A message of the channel is  *)
(* the pair <<code, state>> of Options.                                    *)
(***************************************************************************)
\* line 12: the path of DEFAULT_REDIRECT_URI
ExpectedPath == "/callback"

TimedOut == "Timed out waiting for OAuth callback"
MissingState == "Missing state parameter"
InvalidState == "Invalid OAuth state"
MissingCode == "Missing authorization code"
ServerFailed == "Failed to start local server"
ExchangeFailed == "token exchange failed"
SaveFailed == "app_config.save failed"
Ok == "Ok"

\* lines 127-134: the value a key has after the loop over the query pairs
RECURSIVE query_value(_, _, _)
query_value(query, key, found) ==
    IF query = <<>> THEN found
    ELSE query_value(Tail(query), key, IF Head(query)[1] = key THEN Some(Head(query)[2]) ELSE found)

\* lines 119-147: what the thread sends for the request it received
callback_message(request, expected_path) ==
    IF request.parsed /\ request.path = expected_path
    THEN <<query_value(request.query, "code", None), query_value(request.query, "state", None)>>
    ELSE <<None, None>>

\* the check of the state that takes any state for the token
check_callback_any_state(message, secret) ==
    IF IsNone(message[2]) THEN [error |-> Some(MissingState), code |-> None]
    ELSE IF IsNone(message[1]) THEN [error |-> Some(MissingCode), code |-> None]
    ELSE [error |-> None, code |-> message[1]]

\* lines 155-160: the checks of the message received from the thread
check_callback(message, secret) ==
    IF IsNone(message[2]) THEN [error |-> Some(MissingState), code |-> None]
    ELSE IF Unwrap(message[2]) # secret THEN [error |-> Some(InvalidState), code |-> None]
    ELSE IF IsNone(message[1]) THEN [error |-> Some(MissingCode), code |-> None]
    ELSE [error |-> None, code |-> message[1]]

(***************************************************************************)
(* The auth broker                                                         *)
(*                                                                         *)
(* A request is [header, body]: the x-broker-key header, None when the     *)
(* request has none, and the body, None when it is not JSON, or else the   *)
(* string fields of the JSON object as a function from their names.  What  *)
(* lies outside the broker is a record e: secrets (TICKTICK_CLIENT_ID and  *)
(* TICKTICK_CLIENT_SECRET are set) and status (the status the token        *)
(* endpoint answers).  The outcome is [status, upstream]: the status of    *)
(* the response and the bodies sent to the token endpoint.                 *)
(***************************************************************************)
Whitespace == {" ", "\t", "\n", "\r"}

RECURSIVE trim_whitespace_start(_)
trim_whitespace_start(s) ==
    IF s # <<>> /\ Head(s) \in Whitespace THEN trim_whitespace_start(Tail(s)) ELSE s

RECURSIVE trim_whitespace_end(_)
trim_whitespace_end(s) ==
    IF s # <<>> /\ s[Len(s)] \in Whitespace
    THEN trim_whitespace_end(SubSeq(s, 1, Len(s) - 1)) ELSE s

\* str::trim
trim(s) == trim_whitespace_end(trim_whitespace_start(s))

\* lines 152-154
is_blank(value) == trim(value) = <<>>

\* urlencoding::encode: the characters that are written as they are
Unreserved == {"-", "_", ".", "~"}
\* urlencoding::encode: the percent codes of the other characters of the model
PercentCode == [c \in {" ", "/", ":", "&", "=", "+", "%"} |->
                  CASE c = " " -> Str("%20") [] c = "/" -> Str("%2F") [] c = ":" -> Str("%3A")
                    [] c = "&" -> Str("%26") [] c = "=" -> Str("%3D") [] c = "+" -> Str("%2B")
                    [] c = "%" -> Str("%25")]

RECURSIVE urlencoding_encode(_)
urlencoding_encode(s) ==
    IF s = <<>> THEN <<>>
    ELSE (IF is_ascii_alphanumeric(Head(s)) \/ Head(s) \in Unreserved
          THEN <<Head(s)>> ELSE PercentCode[Head(s)]) \o urlencoding_encode(Tail(s))

\* Response::error(_, status) and the response to an Err of the handler
Answer(status, sent) == [status |-> status, upstream |-> sent]

\* req.json::<T>(): the fields of T, None when the body is not JSON or a
\* field of T is absent
json(body, fields) ==
    IF IsNone(body) THEN None
    ELSE IF ~ (fields \subseteq DOMAIN Unwrap(body)) THEN None
    ELSE Some([f \in fields |-> Unwrap(body)[f]])

\* lines 93-111: the response that refuses the request, None to let it pass
authorize_request(header, key) ==
    IF IsNone(key) THEN None
    ELSE IF trim(IF IsSome(header) THEN Unwrap(header) ELSE <<>>) # Unwrap(key)
    THEN Some(Answer(401, <<>>))
    ELSE None

\* lines 113-150, then lines 61-63 and 85-87
exchange_token(e, body) ==
    IF ~ e.secrets THEN Answer(500, <<>>)
    ELSE IF e.status >= 400 THEN Answer(500, <<body>>)
    ELSE Answer(200, <<body>>)

\* lines 36-64
oauth_exchange(request, key, e) ==
    LET refused == authorize_request(request.header, key)
        payload == json(request.body, {"code", "code_verifier", "redirect_uri"})
    IN  IF IsSome(refused) THEN Unwrap(refused)
        ELSE IF IsNone(payload) THEN Answer(400, <<>>)
        ELSE IF \/ is_blank(Unwrap(payload).code)
                \/ is_blank(Unwrap(payload).code_verifier)
                \/ is_blank(Unwrap(payload).redirect_uri)
        THEN Answer(400, <<>>)
        ELSE exchange_token(e,
                 Str("grant_type=authorization_code&code=")
                 \o urlencoding_encode(trim(Unwrap(payload).code))
                 \o Str("&redirect_uri=") \o urlencoding_encode(trim(Unwrap(payload).redirect_uri))
                 \o Str("&code_verifier=")
                 \o urlencoding_encode(trim(Unwrap(payload).code_verifier)))

\* lines 65-88
oauth_refresh(request, key, e) ==
    LET refused == authorize_request(request.header, key)
        payload == json(request.body, {"refresh_token"})
    IN  IF IsSome(refused) THEN Unwrap(refused)
        ELSE IF IsNone(payload) THEN Answer(400, <<>>)
        ELSE IF is_blank(Unwrap(payload).refresh_token) THEN Answer(400, <<>>)
        ELSE exchange_token(e,
                 Str("grant_type=refresh_token&refresh_token=")
                 \o urlencoding_encode(trim(Unwrap(payload).refresh_token)))

(***************************************************************************)
(* The inputs of the model                                                 *)
(***************************************************************************)
MaxTokens == 3      \* the longest input line built freely from a vocabulary
MaxTags == 2        \* the longest list of tags of a record or of a requirement
MaxDayOffset == 1500 \* the reference dates of the date windows: that many days on
MaxDay == 32        \* the largest day number written in an input
MaxMonth == 13      \* the largest month number written in a numeric token
MaxFilterDay == 20  \* the reference dates of the when filter: that many days on
MaxMarkers == 2     \* the longest input line built from the priority markers
MaxRelativeDay == 80 \* the reference dates of the relative phrases: that many days on
MaxFormatDay == 100 \* the dates written for the API: that many days on
MaxPairs == 2       \* the query of a request: that many pairs at most

\* the decimal digits of n (0 <= n <= 99999), without leading zeros
RECURSIVE Digits(_)
Digits(n) == IF n < 10 THEN <<DigitSeq[n + 1]>>
             ELSE Digits(n \div 10) \o <<DigitSeq[(n % 10) + 1]>>

\* n written with two digits (0 <= n <= 99)
TwoDigits(n) == <<DigitSeq[(n \div 10) + 1], DigitSeq[(n % 10) + 1]>>

\* the English ordinal of n: 1st, 2nd, 3rd, 4th, 11th, 21st, ...
Ordinal(n) ==
    Digits(n) \o (IF n % 10 = 1 /\ n % 100 # 11 THEN Str("st")
                  ELSE IF n % 10 = 2 /\ n % 100 # 12 THEN Str("nd")
                  ELSE IF n % 10 = 3 /\ n % 100 # 13 THEN Str("rd")
                  ELSE Str("th"))

\* all sequences over S of length at most n
SeqsUpTo(S, n) == UNION {[1..k -> S] : k \in 0..n}

\* the reference dates: the Friday of the tests, a Monday, the two sides of a
\* leap day, the last day of a year
Todays == {YMD(2026, 2, 20), YMD(2026, 2, 16), YMD(2024, 2, 29), YMD(2027, 12, 31)}

\* words that no recognizer and no marker rule matches
FillerWords == {Str("pay"), Str("rent")}

\* one spelling of every month, in mixed letter case
MonthWords == <<Str("jan"), Str("Feb"), Str("march"), Str("APR"), Str("May"), Str("june"),
                Str("Jul"), Str("aug"), Str("Sept"), Str("october"), Str("nov"), Str("DEC")>>

\* day numbers: plain, zero-padded, and as ordinals
DayWords == {Digits(d) : d \in 0..MaxDay} \cup {TwoDigits(d) : d \in 0..9}
            \cup {Ordinal(d) : d \in 0..MaxDay}

\* what may follow a month and a day: nothing, a year of 2, 3, 4 or 5 digits (bare,
\* with a trailing comma, or behind a marker sigil), or a word
TailsAfterDay == {<<>>, <<Str("27")>>, <<Str("2027")>>, <<Str("123")>>, <<Str("12345")>>,
                  <<Str("2028,")>>, <<Str("#2027")>>, <<Str("rent")>>}

MonthDayInputs ==
    {<<MonthWords[m], d>> \o tail :
        m \in DOMAIN MonthWords, d \in DayWords, tail \in TailsAfterDay}
    \cup {<<Str("pay"), MonthWords[m], d>> : m \in DOMAIN MonthWords, d \in DayWords}

\* the year parts of a numeric token: 2, 3, 4 and 5 digits
NumericYearParts == {Str("27"), Str("2027"), Str("123"), Str("12345")}

\* the days written in the numeric tokens that carry a year
YearedDays == {0, 1, 15, 29, 30, 31, MaxDay}

\* numeric tokens M/D, M/DD, M/D/Y, M-D-Y, and ISO YYYY-MM-DD
NumericWords ==
    {Digits(m) \o Str("/") \o d :
        m \in 0..MaxMonth, d \in {Digits(k) : k \in 0..MaxDay} \cup {TwoDigits(k) : k \in 0..9}}
    \cup {Digits(m) \o <<sep>> \o Digits(d) \o <<sep>> \o y :
        m \in 0..MaxMonth, d \in YearedDays, y \in NumericYearParts, sep \in {"/", "-"}}
    \cup {Str("2026-") \o TwoDigits(m) \o Str("-") \o TwoDigits(d) :
        m \in 0..MaxMonth, d \in YearedDays}
    \cup {Str("2026-2-3"), Str("26-02-20"), Str("6-1"), Str("6/1/27/1"), Str("6/x")}

NumericInputs ==
    {<<w>> : w \in NumericWords}
    \cup {<<Str("pay"), w, Str("today")>> : w \in NumericWords}

\* the vocabulary of the freely built lines: words, markers, and the words and
\* tokens of every recognizer
FreeWords == {Str("pay"), Str("#week"), Str("~feb"), Str("Next"), Str("week"),
              Str("feb"), Str("3"), Str("2027"), Str("today"), Str("Friday"),
              Str("6/01"), Str("...")}

\* the relative keywords: today, tomorrow and every weekday name, in mixed
\* letter case, and near misses
RelativeWords == {Str("today"), Str("Today"), Str("tomorrow"), Str("TOMORROW"),
                  Str("mon"), Str("Mon"), Str("MONDAY"), Str("tue"), Str("Tues"),
                  Str("tuesday"), Str("wed"), Str("Wednesday"), Str("THU"), Str("thurs"),
                  Str("Thursday"), Str("fri"), Str("Friday"), Str("sat"), Str("SATURDAY"),
                  Str("Sun"), Str("sunday"), Str("weds"), Str("fridays"), Str("yesterday")}

\* the words of the next-week phrase, in mixed letter case, and a near miss
NextWeekWords == {Str("next"), Str("Next"), Str("NEXT"), Str("week"), Str("Week"),
                  Str("WEEK"), Str("weeks")}

\* a relative keyword or two words of the next-week phrase, alone, after a
\* word, before a word and between two words
RelativeInputs ==
    {before \o phrase \o after :
        before \in {<<>>, <<Str("pay")>>},
        phrase \in {<<w>> : w \in RelativeWords} \cup (NextWeekWords \X NextWeekWords),
        after \in {<<>>, <<Str("rent")>>}}

\* the zones of Local: UTC, fixed offsets west and east of it, with and without
\* minutes, up to the largest ones in use, and zones whose clocks change at
\* midnight, forward and back, west and east of UTC
ZoneChange == YMD(2028, 3, 26)
Zones == {Zone(o, "fixed", ZoneChange) : o \in {0 - 720, 0 - 480, 0 - 210, 0, 60, 330, 540, 840}}
         \cup {Zone(o, r, ZoneChange) : o \in {0 - 300, 0 - 60, 120}, r \in {"gap", "fold"}}

\* the dates written for the API: the end of a year, a leap day, the day of
\* the change of the clocks and the days around it
FormatDates == {AddDays(YMD(2027, 12, 25), k) : k \in 0..MaxFormatDay}

\* BROKER_API_KEY: not set, set to the empty string, to a key, to a key with
\* white space around it
BrokerKeys == {None, Some(Str("")), Some(Str("k1")), Some(Str(" k1 "))}

\* the x-broker-key header: absent, blank, the key, the key with white space
\* around it, another key
BrokerHeaders == {None, Some(Str("")), Some(Str("k1")), Some(Str(" k1 ")), Some(Str("k2"))}

\* the bodies: not JSON, or an object with any of the four fields, each
\* empty, blank or with a value
FieldNames == {"code", "code_verifier", "redirect_uri", "refresh_token"}
FieldValues == {Str(""), Str(" "), Str(" a/b ")}
BrokerBodies == {None} \cup {Some(f) : f \in UNION {[D -> FieldValues] : D \in SUBSET FieldNames}}

BrokerRequests == [header : BrokerHeaders, body : BrokerBodies]

\* the secrets of the worker and the answer of the token endpoint
BrokerEnvs == {[secrets |-> TRUE, status |-> 200], [secrets |-> TRUE, status |-> 400],
               [secrets |-> FALSE, status |-> 200]}

\* the secrets of the CsrfToken
CsrfTokens == {"s1", "s2"}

\* the pairs of a query: a code, a state for each secret, and another key
QueryPairs == {<<"code", "c1">>, <<"state", "s1">>, <<"state", "s2">>, <<"error", "denied">>}

\* the requests that reach the local server: on the callback path or on
\* another one, with every query of at most MaxPairs pairs, and one whose URL
\* does not parse
Requests ==
    {[parsed |-> TRUE, path |-> p, query |-> q] :
        p \in {ExpectedPath, "/favicon.ico"}, q \in SeqsUpTo(QueryPairs, MaxPairs)}
    \cup {[parsed |-> FALSE, path |-> "", query |-> <<>>]}

\* the redirect of the authorization server after consent
Redirect(secret) ==
    [parsed |-> TRUE, path |-> ExpectedPath, query |-> <<<<"code", "c1">>, <<"state", secret>>>>]

\* the stored config: none, or the tokens of an earlier login
OldConfig == "old"
NewConfig == "new"

\* the titles given to task_add: empty, a word, only markers, only a date
\* expression, markers and a date expression, and words with both
AddTitles == {<<>>, <<Str("plan")>>, <<Str("today")>>, <<Str("!high")>>,
              <<Str("#ops"), Str("~Work")>>, <<Str("!low"), Str("tomorrow"), Str("#ops")>>,
              <<Str("~Work"), Str("6/01")>>, <<Str("next"), Str("week")>>,
              <<Str("plan"), Str("today")>>, <<Str("plan"), Str("!high"), Str("~Work")>>,
              <<Str("pay"), Str("rent"), Str("#Ops"), Str("!low"), Str("~home"), Str("Friday")>>,
              <<Str("!urgent"), Str("today")>>}

\* the command lines of task_add: every option given or absent
AddArgs ==
    [title : AddTitles,
     priority : {None, Some(1)},
     list : {None, Some(Str("Errands"))},
     project_id : {None, Some(Str("p7"))},
     due_date : {None, Some(Str("2026-03-09T00:00:00.000+0000"))},
     start_date : {None, Some(Str("2026-03-08T00:00:00.000+0000"))},
     all_day : {None, Some(FALSE)},
     tags : {<<>>, <<Str("ops")>>}]

\* what the stored config and the API answer: all is well, no login, the list
\* is not found, no default list is found, create_task fails
AllWell == [config |-> TRUE, list_project |-> Some(Str("p1")),
            default_project |-> Some(Str("p0")), create |-> TRUE]
AddEnvs == {AllWell, [AllWell EXCEPT !.config = FALSE],
            [AllWell EXCEPT !.list_project = None],
            [AllWell EXCEPT !.default_project = None], [AllWell EXCEPT !.create = FALSE]}

\* the reference dates of the relative phrases: every weekday, the end of a
\* year and a leap day
RelativeTodays == {AddDays(YMD(2027, 12, 20), k) : k \in 0..MaxRelativeDay}

\* a month, a day and what follows them, before a word and between two words
SpanInputs ==
    {before \o <<MonthWords[m], d>> \o tail \o <<Str("rent")>> :
        before \in {<<>>, <<Str("pay")>>}, m \in DOMAIN MonthWords,
        d \in {Str("1"), Str("3rd"), Str("15")}, tail \in TailsAfterDay}

ExtractInputs == MonthDayInputs \cup NumericInputs \cup SeqsUpTo(FreeWords, MaxTokens)
                 \cup SpanInputs

\* the vocabulary of the shorthand lines: words, markers with known, unknown and
\* empty names, and the temporal words in mixed letter case
ShorthandWords == {Str("plan"), Str("!High"), Str("!none"), Str("!urgent"), Str("!"),
                   Str("~Work"), Str("~home"), Str("~"), Str("#ops"), Str("#today"), Str("#"),
                   Str("today"), Str("Tomorrow"), Str("This"), Str("WEEK"), Str("this-week")}

\* the priority markers: every level name, in mixed letter case, and suffixes
\* that are no level name
PriorityWords == {Str("review"), Str("!high"), Str("!HIGH"), Str("!Medium"), Str("!low"),
                  Str("!Low"), Str("!NONE"), Str("!Normal"), Str("!urgent"), Str("!highest"),
                  Str("!")}

\* the temporal words: every alias, in mixed letter case, and near misses
WhenWords == {Str("plan"), Str("Today"), Str("tomorrow"), Str("week"), Str("Week"),
              Str("ThisWeek"), Str("THIS-WEEK"), Str("this"), Str("THIS"), Str("weekly")}

\* the list and tag markers: names in mixed letter case, repeated names, a
\* temporal word as a name, and the bare sigils
MarkerWords == {Str("plan"), Str("~Work"), Str("~home"), Str("~"), Str("#ops"), Str("#Ops"),
                Str("#today"), Str("#")}

ShorthandInputs == SeqsUpTo(ShorthandWords, MaxTokens)
                   \cup SeqsUpTo(MarkerWords, MaxTokens)
                   \cup SeqsUpTo(PriorityWords, MaxMarkers)
                   \cup SeqsUpTo(WhenWords, MaxTokens)

\* the date strings of the records: the forms the API and the tests use, an
\* instant of the evening before, and values that are no date
DateValues == {Str("2026-03-02"), Str("2026-03-01T00:00:00.000+0000"),
               Str("2026-02-19T22:00:00.000+0000"), Str("2026-03-01T00:00:00"),
               Str("2026-03-05T09:30:00+09:00"), Str("2026-03-07T10:00:00Z"),
               Str("1704067200000"), Str("1704067200"), Str("2026-02-30"),
               Str("not-a-date"), Str(""), Str("17040672000"), Str("86400"),
               Str("2026-03-01T25:00:00Z")}

OptionOf(S) == {None} \cup {Some(v) : v \in S}

\* the tags of the records and of the requirements, in mixed letter case
TagWords == {Str("work"), Str("Work"), Str("ops"), Str("OPS"), Str("home")}

TagLists == SeqsUpTo(TagWords, MaxTags)

WhenFilters == {"Today", "Tomorrow", "ThisWeek"}

\* the reference date of the tests
TestToday == YMD(2026, 2, 20)

\* the zones of task_add: UTC, east of it, and one where today has no midnight
AddZones == {Utc, Zone(540, "fixed", TestToday), Zone(0 - 300, "gap", TestToday)}

\* the reference dates of the when filter: from the Monday of the week of the
\* tests on, past the dates of the records
FilterTodays == {AddDays(YMD(2026, 2, 16), k) : k \in 0..MaxFilterDay}

(***************************************************************************)
(* The state machine: one command per run of the program                   *)
(***************************************************************************)
NoTask == [due_date |-> None, start_date |-> None, tags |-> None]

Blank ==
    /\ pc = "idle"
    /\ raw = <<>>
    /\ flag = FALSE
    /\ title = <<>>
    /\ date = None
    /\ parsed = DefaultFilters
    /\ task = NoTask
    /\ required = <<>>
    /\ when = "Today"
    /\ args_tags = <<>>
    /\ args = [title |-> <<>>, priority |-> None, list |-> None, project_id |-> None,
               due_date |-> None, start_date |-> None, all_day |-> None, tags |-> <<>>]
    /\ env = [config |-> TRUE, list_project |-> None, default_project |-> None, create |-> TRUE]
    /\ shorthand_tags = <<>>
    /\ result = None
    /\ csrf_token = ""
    /\ requests = <<>>
    /\ thread = "none"
    /\ channel = <<>>
    /\ auth_code = None
    /\ exchanges = <<>>
    /\ outcome = None
    /\ broker_request = [header |-> None, body |-> None]
    /\ response = None
    /\ upstream = <<>>

\* task_add, lines 614-616: the date is recognized in the raw input line
ExtractDueDate ==
    /\ pc = "idle"
    /\ \E tokens \in ExtractInputs :
          LET r == extract_due_date_from_input(tokens, today)
          IN  /\ raw' = tokens
              /\ title' = r.title
              /\ date' = r.date
    /\ pc' = "extract_due_date_from_input"
    /\ UNCHANGED <<broker_vars, login_vars, today, tz, args, env, args_tags, shorthand_tags, flag, parsed, task, required, when, result>>

\* task_add, lines 614-616, on a line with a relative phrase
ExtractRelativeDate ==
    /\ pc = "idle"
    /\ \E tokens \in RelativeInputs :
          LET r == extract_due_date_from_input(tokens, today)
          IN  /\ raw' = tokens
              /\ title' = r.title
              /\ date' = r.date
    /\ pc' = "extract_due_date_from_input"
    /\ UNCHANGED <<broker_vars, login_vars, today, tz, args, env, args_tags, shorthand_tags, flag, parsed, task, required, when, result>>

\* task_add, lines 626-627: the inferred date is written for the API
FormatDueDate ==
    /\ pc = "idle"
    /\ \E d \in FormatDates :
          /\ date' = Some(d)
          /\ result' = format_ticktick_due_date(d, tz)
    /\ pc' = "format_ticktick_due_date"
    /\ UNCHANGED <<broker_vars, login_vars, today, tz, args, env, args_tags, shorthand_tags, raw, flag, title, parsed, task,
                   required, when>>

\* task_add, lines 598-690
TaskAdd ==
    /\ pc = "idle"
    /\ \E a \in AddArgs, e \in AddEnvs :
          /\ args' = a
          /\ env' = e
          /\ result' = task_add(a, today, tz, e)
    /\ pc' = "task_add"
    /\ UNCHANGED <<broker_vars, login_vars, today, tz, args_tags, shorthand_tags, raw, flag, title, date, parsed, task,
                   required, when>>

\* login, lines 24-66, and wait_for_code, lines 102-117: the token is issued,
\* the server is bound and the thread is spawned
Login ==
    /\ pc = "idle"
    /\ \E secret \in CsrfTokens, bound \in BOOLEAN :
          /\ csrf_token' = secret
          /\ IF bound
             THEN pc' = "wait_for_code" /\ thread' = "recv" /\ outcome' = None
             ELSE pc' = "login" /\ thread' = "none" /\ outcome' = Some(ServerFailed)
    /\ UNCHANGED <<requests, channel, auth_code, exchanges, stored>>
    /\ UNCHANGED <<broker_vars, today, tz, args, env, args_tags, shorthand_tags, raw, flag, title, date,
                   parsed, task, required, when, result>>

\* a first HTTP request reaches the local server
Arrive ==
    /\ pc = "wait_for_code"
    /\ requests = <<>>
    /\ \E request \in Requests : requests' = <<request>>
    /\ UNCHANGED <<csrf_token, thread, channel, auth_code, exchanges, stored, outcome>>
    /\ UNCHANGED <<broker_vars, today, pc, tz, args, env, args_tags, shorthand_tags, raw, flag, title, date,
                   parsed, task, required, when, result>>

\* the redirect of the authorization server reaches the local server after
\* another request
ArriveLater ==
    /\ pc = "wait_for_code"
    /\ Len(requests) = 1
    /\ requests' = Append(requests, Redirect(csrf_token))
    /\ UNCHANGED <<csrf_token, thread, channel, auth_code, exchanges, stored, outcome>>
    /\ UNCHANGED <<broker_vars, today, pc, tz, args, env, args_tags, shorthand_tags, raw, flag, title, date,
                   parsed, task, required, when, result>>

\* wait_for_code, line 118: server.recv() returns the first request
Recv ==
    /\ thread = "recv"
    /\ requests # <<>>
    /\ thread' = "respond"
    /\ UNCHANGED <<csrf_token, requests, channel, auth_code, exchanges, stored, outcome>>
    /\ UNCHANGED <<broker_vars, today, pc, tz, args, env, args_tags, shorthand_tags, raw, flag, title, date,
                   parsed, task, required, when, result>>

\* wait_for_code, lines 119-147: the thread answers the request, sends its
\* message and ends
Respond ==
    /\ thread = "respond"
    /\ channel' = Append(channel, callback_message(requests[1], ExpectedPath))
    /\ thread' = "done"
    /\ UNCHANGED <<csrf_token, requests, auth_code, exchanges, stored, outcome>>
    /\ UNCHANGED <<broker_vars, today, pc, tz, args, env, args_tags, shorthand_tags, raw, flag, title, date,
                   parsed, task, required, when, result>>

\* wait_for_code, lines 151-153: 120 seconds pass with nothing in the channel
Timeout ==
    /\ pc = "wait_for_code"
    /\ channel = <<>>
    /\ pc' = "login"
    /\ outcome' = Some(TimedOut)
    /\ UNCHANGED <<csrf_token, requests, thread, channel, auth_code, exchanges, stored>>
    /\ UNCHANGED <<broker_vars, today, tz, args, env, args_tags, shorthand_tags, raw, flag, title, date,
                   parsed, task, required, when, result>>

\* wait_for_code, lines 151-160: the message of the thread is received and checked
WaitForCode ==
    /\ pc = "wait_for_code"
    /\ channel # <<>>
    /\ LET checked == check_callback(Head(channel), csrf_token)
       IN  /\ auth_code' = checked.code
           /\ outcome' = checked.error
           /\ pc' = IF IsSome(checked.error) THEN "login" ELSE "exchange_code"
    /\ channel' = Tail(channel)
    /\ UNCHANGED <<csrf_token, requests, thread, exchanges, stored>>
    /\ UNCHANGED <<broker_vars, today, tz, args, env, args_tags, shorthand_tags, raw, flag, title, date,
                   parsed, task, required, when, result>>

\* login, lines 67-99: the code is exchanged for a token and the config is saved
ExchangeCode ==
    /\ pc = "exchange_code"
    /\ exchanges' = Append(exchanges, Unwrap(auth_code))
    /\ \E exchanged \in BOOLEAN, saved \in BOOLEAN :
          /\ stored' = IF exchanged /\ saved THEN Some(NewConfig) ELSE stored
          /\ outcome' = IF ~ exchanged THEN Some(ExchangeFailed)
                        ELSE IF ~ saved THEN Some(SaveFailed) ELSE Some(Ok)
    /\ pc' = "login"
    /\ UNCHANGED <<csrf_token, requests, thread, channel, auth_code>>
    /\ UNCHANGED <<broker_vars, today, tz, args, env, args_tags, shorthand_tags, raw, flag, title, date,
                   parsed, task, required, when, result>>

\* fetch, lines 36-64: POST /v1/oauth/exchange
OauthExchange ==
    /\ pc = "idle"
    /\ \E request \in BrokerRequests, e \in BrokerEnvs :
          LET answer == oauth_exchange(request, broker_key, e)
          IN  /\ broker_request' = request
              /\ response' = Some(answer.status)
              /\ upstream' = upstream \o answer.upstream
    /\ pc' = "oauth_exchange"
    /\ UNCHANGED <<broker_key, login_vars, today, tz, args, env, args_tags, shorthand_tags, raw,
                   flag, title, date, parsed, task, required, when, result>>

\* fetch, lines 65-88: POST /v1/oauth/refresh
OauthRefresh ==
    /\ pc = "idle"
    /\ \E request \in BrokerRequests, e \in BrokerEnvs :
          LET answer == oauth_refresh(request, broker_key, e)
          IN  /\ broker_request' = request
              /\ response' = Some(answer.status)
              /\ upstream' = upstream \o answer.upstream
    /\ pc' = "oauth_refresh"
    /\ UNCHANGED <<broker_key, login_vars, today, tz, args, env, args_tags, shorthand_tags, raw,
                   flag, title, date, parsed, task, required, when, result>>

\* task_list, line 721 (parse_shorthand, flag set), and task_add, line 617
\* (parse_task_add_shorthand, flag not set): the markers are parsed
ParseShorthand ==
    /\ pc = "idle"
    /\ \E tokens \in ShorthandInputs, parse_when \in BOOLEAN :
          /\ raw' = tokens
          /\ flag' = parse_when
          /\ parsed' = IF parse_when THEN parse_shorthand(tokens)
                                    ELSE parse_task_add_shorthand(tokens)
    /\ pc' = "parse_shorthand_with_when"
    /\ UNCHANGED <<broker_vars, login_vars, today, tz, args, env, args_tags, shorthand_tags, title, date, task, required, when, result>>

\* task_matches_when_filter, line 442: the date of a record is resolved
TaskDueDate ==
    /\ pc = "idle"
    /\ \E due \in OptionOf(DateValues), start \in OptionOf(DateValues) :
          /\ task' = [due_date |-> due, start_date |-> start, tags |-> None]
          /\ result' = task_due_date(task')
    /\ pc' = "task_due_date"
    /\ UNCHANGED <<broker_vars, login_vars, today, tz, args, env, args_tags, shorthand_tags, raw, flag, title, date, parsed, required, when>>

\* task_list, lines 768-770: a record is tested against the required tags,
\* which the caller has found not to be empty
TaskHasAllTags ==
    /\ pc = "idle"
    /\ \E tags \in OptionOf(TagLists), required_tags \in TagLists :
          /\ required_tags # <<>>
          /\ task' = [due_date |-> None, start_date |-> None, tags |-> tags]
          /\ required' = required_tags
          /\ result' = task_has_all_tags(task', required_tags)
    /\ pc' = "task_has_all_tags"
    /\ UNCHANGED <<broker_vars, login_vars, today, tz, args, env, args_tags, shorthand_tags, raw, flag, title, date, parsed, when>>

\* task_matches_when_filter, line 446: the window of a filter is computed
DateWindowFor ==
    /\ pc = "idle"
    /\ \E filter \in WhenFilters :
          /\ when' = filter
          /\ result' = date_window_for(filter, today)
    /\ pc' = "date_window_for"
    /\ UNCHANGED <<broker_vars, login_vars, today, tz, args, env, args_tags, shorthand_tags, raw, flag, title, date, parsed, task, required>>

\* task_list, lines 772-775: a record is kept when it matches the when filter
TaskMatchesWhenFilter ==
    /\ pc = "idle"
    /\ \E due \in OptionOf(DateValues), start \in OptionOf(DateValues), filter \in WhenFilters :
          /\ task' = [due_date |-> due, start_date |-> start, tags |-> None]
          /\ when' = filter
          /\ result' = task_matches_when_filter(task', filter, today)
    /\ pc' = "task_matches_when_filter"
    /\ UNCHANGED <<broker_vars, login_vars, today, tz, args, env, args_tags, shorthand_tags, raw, flag, title, date, parsed, required>>

\* task_add, line 638, and task_list, line 731: the tags of the markers are
\* merged into the tags of the command line
MergeTags ==
    /\ pc = "idle"
    /\ \E existing \in TagLists, extras \in TagLists :
          /\ args_tags' = existing
          /\ shorthand_tags' = extras
          /\ result' = merge_tags(existing, extras)
    /\ pc' = "merge_tags"
    /\ UNCHANGED <<broker_vars, login_vars, today, tz, args, env, raw, flag, title, date, parsed, task, required, when>>

InitExtract == today \in Todays /\ tz = Utc /\ stored = None /\ broker_key = None /\ Blank
NextExtract == ExtractDueDate
SpecExtract == InitExtract /\ [][NextExtract]_vars

InitShorthand == today = TestToday /\ tz = Utc /\ stored = None /\ broker_key = None /\ Blank
NextShorthand == ParseShorthand
SpecShorthand == InitShorthand /\ [][NextShorthand]_vars

InitRecord == today = TestToday /\ tz = Utc /\ stored = None /\ broker_key = None /\ Blank
NextRecord == TaskDueDate \/ TaskHasAllTags
SpecRecord == InitRecord /\ [][NextRecord]_vars

InitWindow == today \in {AddDays(TestToday, k) : k \in 0..MaxDayOffset} /\ tz = Utc /\ stored = None /\ broker_key = None /\ Blank
NextWindow == DateWindowFor
SpecWindow == InitWindow /\ [][NextWindow]_vars

InitFilter == today \in FilterTodays /\ tz = Utc /\ stored = None /\ broker_key = None /\ Blank
NextFilter == TaskMatchesWhenFilter
SpecFilter == InitFilter /\ [][NextFilter]_vars

InitRelative == today \in RelativeTodays /\ tz = Utc /\ stored = None /\ broker_key = None /\ Blank
NextRelative == ExtractRelativeDate
SpecRelative == InitRelative /\ [][NextRelative]_vars

InitFormat == today = TestToday /\ tz \in Zones /\ stored = None /\ broker_key = None /\ Blank
NextFormat == FormatDueDate
SpecFormat == InitFormat /\ [][NextFormat]_vars

InitAdd == today = TestToday /\ tz \in AddZones /\ stored = None /\ broker_key = None /\ Blank
NextAdd == TaskAdd
SpecAdd == InitAdd /\ [][NextAdd]_vars

InitLogin == today = TestToday /\ tz = Utc /\ stored \in {None, Some(OldConfig)} /\ broker_key = None /\ Blank
NextLogin ==
    \/ Login
    \/ Arrive
    \/ ArriveLater
    \/ Recv
    \/ Respond
    \/ Timeout
    \/ WaitForCode
    \/ ExchangeCode
SpecLogin == InitLogin /\ [][NextLogin]_vars

InitBroker == today = TestToday /\ tz = Utc /\ stored = None /\ broker_key \in BrokerKeys /\ Blank
NextBroker == OauthExchange \/ OauthRefresh
SpecBroker == InitBroker /\ [][NextBroker]_vars

InitMerge == today = TestToday /\ tz = Utc /\ stored = None /\ broker_key = None /\ Blank
NextMerge == MergeTags
SpecMerge == InitMerge /\ [][NextMerge]_vars

\* the program: one of the commands, on one day
Init == today \in Todays /\ tz = Utc /\ stored = None /\ broker_key = None /\ Blank
Next ==
    \/ ExtractDueDate
    \/ ParseShorthand
    \/ TaskDueDate
    \/ TaskHasAllTags
    \/ DateWindowFor
    \/ TaskMatchesWhenFilter
    \/ MergeTags
    \/ ExtractRelativeDate
    \/ FormatDueDate
    \/ TaskAdd
    \/ Login
    \/ Arrive
    \/ ArriveLater
    \/ Recv
    \/ Respond
    \/ Timeout
    \/ WaitForCode
    \/ ExchangeCode
    \/ OauthExchange
    \/ OauthRefresh
Spec == Init /\ [][Next]_vars

(***************************************************************************)
(* Properties of the date recognizer                                       *)
(***************************************************************************)
\* a token that carries one of the sigils #, ~, !
HasSigil(token) == token # <<>> /\ token[1] \in {"#", "~", "!"}

\* the month a word names (letter case and surrounding punctuation aside), 0
\* when it names none or carries a sigil
MonthNumber(token) ==
    LET m == parse_month_token(normalize_date_token(token))
    IN  IF IsSome(m) /\ ~HasSigil(token) THEN Unwrap(m) ELSE 0

\* the number a day word writes, with or without an ordinal suffix: one or two
\* digits, then nothing or st, nd, rd, th; -1 when the word is no such number
\* or carries a sigil
DayNumber(token) ==
    LET n    == normalize_date_token(token)
        suf  == IF Len(n) >= 3 THEN SubSeq(n, Len(n) - 1, Len(n)) ELSE <<>>
        body == IF suf \in {Str("st"), Str("nd"), Str("rd"), Str("th")}
                THEN SubSeq(n, 1, Len(n) - 2) ELSE n
    IN  IF IsField(body, 1, 2) /\ ~HasSigil(token) THEN DigitsValue(body) ELSE 0 - 1

\* the year a token of two or four digits writes, -1 for any other token and
\* for one that carries a sigil
YearNumber(token) ==
    LET n == normalize_date_token(token)
    IN  IF HasSigil(token) THEN 0 - 1
        ELSE IF IsField(n, 2, 2) THEN 2000 + DigitsValue(n)
        ELSE IF IsField(n, 4, 4) THEN DigitsValue(n)
        ELSE 0 - 1

\* the day exists in the calendar
ExistsDay(dt) == dt.month \in 1..12 /\ dt.day >= 1 /\ dt.day <= DaysInMonth(dt.year, dt.month)

\* the rule of the inferred year: this year unless the day is already past
InferredDate(month, day) ==
    IF DateGe(YMD(today.year, month, day), today)
    THEN YMD(today.year, month, day)
    ELSE YMD(today.year + 1, month, day)

\* a numeric token M/D: two fields of one or two digits around a slash
IsMonthSlashDay(token) ==
    LET parts == split(token, "/")
    IN  Len(parts) = 2 /\ IsField(parts[1], 1, 2) /\ IsField(parts[2], 1, 2)

\* what C1 says of a month and a day written without a year
YearIsInferred(month, day) ==
    (ExistsDay(YMD(today.year, month, day)) /\ ExistsDay(InferredDate(month, day)))
        => date = Some(InferredDate(month, day))

\* C1: a month name followed by a day number, or a numeric token M/D, that
\* names a day of the calendar yields that month and day, in this year when
\* the day is today or later and in the next year otherwise.
C1_InferredYear ==
    pc = "extract_due_date_from_input" =>
        /\ (Len(raw) = 2 /\ MonthNumber(raw[1]) # 0 /\ IsField(raw[2], 1, 2))
              => YearIsInferred(MonthNumber(raw[1]), DigitsValue(raw[2]))
        /\ (Len(raw) = 1 /\ IsMonthSlashDay(raw[1]))
              => YearIsInferred(DigitsValue(split(raw[1], "/")[1]),
                                DigitsValue(split(raw[1], "/")[2]))

\* C2: every token of the input that starts with #, ~ or ! is still in the
\* cleaned title: the sigil tokens of the title are those of the input.
C2_MarkersStay ==
    pc = "extract_due_date_from_input" =>
        SelectSeq(title, HasSigil) = SelectSeq(raw, HasSigil)

\* C4: a month name, a day number in 1..31 (with or without ordinal suffix)
\* and a year token of two or four digits yield exactly that date, and the
\* three tokens leave the title.
C4_ExplicitYear ==
    pc = "extract_due_date_from_input" =>
        ((/\ Len(raw) = 3
          /\ MonthNumber(raw[1]) # 0
          /\ DayNumber(raw[2]) \in 1..31
          /\ YearNumber(raw[3]) # 0 - 1
          /\ ExistsDay(YMD(YearNumber(raw[3]), MonthNumber(raw[1]), DayNumber(raw[2]))))
         => /\ date = Some(YMD(YearNumber(raw[3]), MonthNumber(raw[1]), DayNumber(raw[2])))
            /\ title = <<>>)

\* a day number that no year has in that month: 0, or past the month's end
DayOutOfRange(month, token) ==
    /\ DayNumber(token) # 0 - 1
    /\ DayNumber(token) = 0 \/ DayNumber(token) > DaysInMonth(2024, month)

\* position i is where the scan meets its first candidate: nothing before it
\* but a plain word
FirstCandidate(i) == i = 1 \/ (i = 2 /\ raw[1] \in FillerWords)

\* the input up to position n is still there, at the head of the title
KeptThrough(n) == Len(title) >= n /\ SubSeq(title, 1, n) = SubSeq(raw, 1, n)

\* C5: a month name followed by a day that is out of range gives no date at
\* that position, and the month token and the day token stay in the title.
C5_OutOfRangeDay ==
    pc = "extract_due_date_from_input" =>
        \A i \in {1, 2} :
            (/\ i + 1 <= Len(raw)
             /\ FirstCandidate(i)
             /\ MonthNumber(raw[i]) # 0
             /\ DayOutOfRange(MonthNumber(raw[i]), raw[i + 1]))
            => KeptThrough(i + 1)

\* a token of three or of five digits
IsBadYear(token) ==
    IsDigits(normalize_date_token(token)) /\ Len(normalize_date_token(token)) \in {3, 5}

\* a numeric token M/D/Y or M-D-Y whose year part has three or five digits
NumericBadYear(token) ==
    \E sep \in {"/", "-"} :
        LET parts == split(normalize_date_token(token), sep)
        IN  /\ Len(parts) = 3
            /\ IsDigits(parts[1]) /\ IsDigits(parts[2])
            /\ IsDigits(parts[3]) /\ Len(parts[3]) \in {3, 5}

\* a numeric token with such a year part is no date, and it stays in the title
NumericBadYearRejected ==
    \A i \in {1, 2} :
        (i <= Len(raw) /\ FirstCandidate(i) /\ NumericBadYear(raw[i])) => KeptThrough(i)

\* C6 as written: a year token of 3 or 5 digits rejects the whole candidate,
\* the numeric token as well as the month name and the day before the year:
\* no date there, and none of the tokens removed.
C6_CandidateRejected ==
    pc = "extract_due_date_from_input" =>
        /\ NumericBadYearRejected
        /\ (/\ Len(raw) = 3
            /\ MonthNumber(raw[1]) # 0
            /\ DayNumber(raw[2]) \in 1..31
            /\ IsBadYear(raw[3]))
           => (date = None /\ title = raw)

\* C6 as amended: a numeric token with a year part of 3 or 5 digits is
\* rejected whole; after a month name and a day, a token of 3 or 5 digits is
\* only not a year: it stays in the title, and the month and the day are read
\* as when nothing follows them (a day of one digit with the inferred year).
C6_BadYearToken ==
    pc = "extract_due_date_from_input" =>
        /\ NumericBadYearRejected
        /\ (/\ Len(raw) = 3
            /\ MonthNumber(raw[1]) # 0
            /\ DayNumber(raw[2]) # 0 - 1
            /\ IsBadYear(raw[3]))
           => /\ date = extract_due_date_from_input(SubSeq(raw, 1, 2), today).date
              /\ title = extract_due_date_from_input(SubSeq(raw, 1, 2), today).title \o <<raw[3]>>
              /\ (IsField(raw[2], 1, 1) /\ DayNumber(raw[2]) >= 1)
                    => YearIsInferred(MonthNumber(raw[1]), DayNumber(raw[2]))

\* C6 happens: 'Feb 1 123' on 2026-02-20 is February 1st of the next year, and
\* 123 is the title
C6_Witness ==
    /\ pc = "extract_due_date_from_input"
    /\ today = TestToday
    /\ raw = <<Str("Feb"), Str("1"), Str("123")>>
    /\ title = <<Str("123")>>
    /\ date = Some(YMD(2027, 2, 1))

\* a date found in one token
OneToken(found) ==
    IF IsSome(found) THEN Some([consumed |-> 1, date |-> Unwrap(found)]) ELSE None

\* the recognizers in their fixed order, tried at position i: the phrase next
\* week, a month-name sequence, a numeric date token, a relative keyword; the
\* first success as Some([consumed, date])
RecognizedAt(tokens, i, now) ==
    or_else(IF /\ normalize_date_token(tokens[i]) = Str("next")
               /\ i < Len(tokens)
               /\ normalize_date_token(tokens[i + 1]) = Str("week")
            THEN Some([consumed |-> 2, date |-> start_of_next_week(now)])
            ELSE None,
    or_else(parse_month_day_sequence(tokens, i, now),
    or_else(OneToken(parse_numeric_date_token(normalize_date_token(tokens[i]), now)),
            OneToken(relative_date(normalize_date_token(tokens[i]), now)))))

\* the candidate positions of the input at which a recognizer succeeds
Recognizable ==
    {i \in DOMAIN raw : ~HasSigil(raw[i]) /\ IsSome(RecognizedAt(raw, i, today))}

\* the tokens of s outside positions i .. i + n - 1
Outside(s, i, n) == [k \in 1..(Len(s) - n) |-> IF k < i THEN s[k] ELSE s[k + n]]

\* C7: the date is the one that the first successful recognizer finds at the
\* leftmost candidate position where any succeeds; only the tokens of that one
\* expression leave the title, so a later date expression stays; and with no
\* such position there is no date and the title is the input.
C7_LeftmostFirstRecognizer ==
    pc = "extract_due_date_from_input" =>
        LET hits == Recognizable
        IN  IF hits = {}
            THEN date = None /\ title = raw
            ELSE LET i == CHOOSE k \in hits : \A j \in hits : k <= j
                     found == Unwrap(RecognizedAt(raw, i, today))
                 IN  /\ date = Some(found.date)
                     /\ title = Outside(raw, i, found.consumed)

\* C7 happens: of three date expressions the first one is taken on 2026-02-20
\* and the two after it stay in the title
C7_Witness ==
    /\ pc = "extract_due_date_from_input"
    /\ today = TestToday
    /\ raw = <<Str("today"), Str("Friday"), Str("6/01")>>
    /\ title = <<Str("Friday"), Str("6/01")>>
    /\ date = Some(TestToday)

(***************************************************************************)
(* Properties of the shorthand extractor                                   *)
(***************************************************************************)
\* the same word, letter case aside
SameWord(token, word) == to_ascii_lowercase(token) = Str(word)

\* the five level names, the five temporal words, the two words of the phrase
LevelNames == {Str("high"), Str("medium"), Str("low"), Str("none"), Str("normal")}
TemporalWords == {Str("today"), Str("tomorrow"), Str("week"), Str("thisweek"), Str("this-week")}
LowerThis == Str("this")
LowerWeek == Str("week")

\* a priority marker: ! and one of the five level names
IsPriorityMarker(token) ==
    /\ Len(token) > 1 /\ token[1] = "!"
    /\ to_ascii_lowercase(Tail(token)) \in LevelNames

\* a list marker or a tag marker: the sigil and a name that is not empty
IsNamedMarker(token, sigil) == Len(token) > 1 /\ token[1] = sigil

\* a temporal phrase starts or stands at position i
IsTemporalAt(tokens, i) ==
    \/ to_ascii_lowercase(tokens[i]) \in TemporalWords
    \/ /\ i < Len(tokens)
       /\ to_ascii_lowercase(tokens[i]) = LowerThis
       /\ to_ascii_lowercase(tokens[i + 1]) = LowerWeek

\* the token at position i is consumed: a marker, or a temporal phrase when
\* the flag asks for them
ConsumedAt(tokens, i, parse_when) ==
    \/ IsPriorityMarker(tokens[i])
    \/ IsNamedMarker(tokens[i], "~")
    \/ IsNamedMarker(tokens[i], "#")
    \/ parse_when /\ IsTemporalAt(tokens, i)

RECURSIVE TokensAt(_, _, _)
\* the tokens of s at the positions of P from position i on, in order
TokensAt(s, P, i) ==
    IF i > Len(s) THEN <<>>
    ELSE (IF i \in P THEN <<s[i]>> ELSE <<>>) \o TokensAt(s, P, i + 1)

\* C3: the tokens are partitioned: terms holds the tokens that are not
\* consumed, each once and in their order in the input, and no consumed one;
\* the tag markers, without their sigil and in order, are the tags.
C3_TermsPartition ==
    pc = "parse_shorthand_with_when" =>
        /\ parsed.terms = TokensAt(raw, {i \in DOMAIN raw : ~ConsumedAt(raw, i, flag)}, 1)
        /\ parsed.tags = [k \in DOMAIN TokensAt(raw, {i \in DOMAIN raw : IsNamedMarker(raw[i], "#")}, 1)
                            |-> Tail(TokensAt(raw, {i \in DOMAIN raw : IsNamedMarker(raw[i], "#")}, 1)[k])]

\* C3 happens: with the flag set, a word, a tag and the phrase 'This WEEK'
\* leave one term
C3_Witness ==
    /\ pc = "parse_shorthand_with_when"
    /\ flag
    /\ raw = <<Str("This"), Str("WEEK"), Str("plan")>>
    /\ parsed.terms = <<Str("plan")>>
    /\ parsed.when = Some("ThisWeek")

(***************************************************************************)
(* Properties of the record dates, the tags and the date windows           *)
(***************************************************************************)
\* the date of an optional date string
ParsedDate(o) == IF IsNone(o) THEN None ELSE parse_task_date(Unwrap(o))

\* C8: the date of a record is the parsed due date when there is a due date
\* and it parses, and otherwise the parsed start date.
C8_DueThenStart ==
    pc = "task_due_date" =>
        result = IF IsSome(ParsedDate(task.due_date))
                 THEN ParsedDate(task.due_date)
                 ELSE ParsedDate(task.start_date)

\* the tags of a record, none when it has no tags field
RecordTags(t) == IF IsNone(t.tags) THEN {} ELSE Range(Unwrap(t.tags))

Zeller(dt) ==
    LET m == IF dt.month <= 2 THEN dt.month + 12 ELSE dt.month
        y == IF dt.month <= 2 THEN dt.year - 1 ELSE dt.year
    IN  (dt.day + ((13 * (m + 1)) \div 5) + (y % 100) + ((y % 100) \div 4)
         + ((y \div 100) \div 4) + (5 * (y \div 100))) % 7

\* the next day of the calendar
DayAfter(dt) ==
    IF dt.day < DaysInMonth(dt.year, dt.month) THEN YMD(dt.year, dt.month, dt.day + 1)
    ELSE IF dt.month < 12 THEN YMD(dt.year, dt.month + 1, 1)
    ELSE YMD(dt.year + 1, 1, 1)

\* C10: the window of ThisWeek starts on a Monday, ends six days later, and
\* holds today.
C10_ThisWeekWindow ==
    (pc = "date_window_for" /\ when = "ThisWeek") =>
        /\ Zeller(result[1]) = 2
        /\ result[2] = DayAfter(DayAfter(DayAfter(DayAfter(DayAfter(DayAfter(result[1]))))))
        /\ DateGe(today, result[1])
        /\ DateGe(result[2], today)

\* C10 happens: the week of Friday 2027-01-01 starts in the year before
C10_Witness ==
    /\ pc = "date_window_for"
    /\ when = "ThisWeek"
    /\ today = YMD(2027, 1, 1)
    /\ result = <<YMD(2026, 12, 28), YMD(2027, 1, 3)>>

\* the window a filter names, from the calendar alone: the day, the day after,
\* or the seven days from the Monday on or before the day
InWindow(dt, filter, now) ==
    IF filter = "Today" THEN dt = now
    ELSE IF filter = "Tomorrow" THEN dt = DayAfter(now)
    ELSE \E monday \in {AddDays(now, 0 - k) : k \in 0..6} :
            /\ Zeller(monday) = 2
            /\ DateGe(dt, monday)
            /\ DateGe(DayAfter(DayAfter(DayAfter(DayAfter(DayAfter(DayAfter(monday)))))), dt)

\* C11: a record matches a filter exactly when its resolved date is present
\* and lies in the window of the filter; a record without a resolvable date
\* matches no filter.
C11_MatchesWindow ==
    pc = "task_matches_when_filter" =>
        result = (/\ IsSome(task_due_date(task))
                  /\ InWindow(Unwrap(task_due_date(task)), when, today))

\* C11 happens: on Friday 2026-02-20 a record due on the Thursday evening
\* before, given as a timestamp, is in the week
C11_Witness ==
    /\ pc = "task_matches_when_filter"
    /\ today = TestToday
    /\ when = "ThisWeek"
    /\ task.due_date = Some(Str("2026-02-19T22:00:00.000+0000"))
    /\ result = TRUE


(***************************************************************************)
(* Properties of merge_tags                                                *)
(***************************************************************************)
\* two tags that are equal when the letter case of A-Z is ignored
SameTag(a, b) == to_ascii_lowercase(a) = to_ascii_lowercase(b)

\* the first tag of list s that is the tag t in some letter case
FirstOccurrence(s, t) ==
    s[CHOOSE k \in DOMAIN s : SameTag(s[k], t) /\ \A j \in 1..(k - 1) : ~ SameTag(s[j], t)]

\* no two tags of list s are equal ignoring the letter case
NoCaseDuplicates(s) == \A i, j \in DOMAIN s : SameTag(s[i], s[j]) => i = j

\* C12: merge_tags is idempotent: merging the same extras again into the
\* merged list leaves it unchanged; and every tag of the merged list is a tag
\* of the input and stands, at its first position in the merged list, in the
\* letter case of its first occurrence in existing followed by extras.
C12_Idempotent ==
    pc = "merge_tags" =>
        LET all == args_tags \o shorthand_tags
        IN  /\ merge_tags(result, shorthand_tags) = result
            /\ \A i \in DOMAIN result :
                  /\ \E k \in DOMAIN all : all[k] = result[i]
                  /\ FirstOccurrence(result, result[i]) = FirstOccurrence(all, result[i])

\* C12: the lists of the test: Work is known as work, ops is new
C12_Witness ==
    /\ pc = "merge_tags"
    /\ args_tags = <<Str("work")>>
    /\ shorthand_tags = <<Str("Work"), Str("ops")>>
    /\ result = <<Str("work"), Str("ops")>>

\* the positions of extras whose tag has no match, ignoring case, in existing
\* nor at an earlier position of extras
NewTagPositions(existing, extras) ==
    {i \in DOMAIN extras :
        /\ \A k \in DOMAIN existing : ~ SameTag(existing[k], extras[i])
        /\ \A j \in 1..(i - 1) : ~ SameTag(extras[j], extras[i])}

\* C13: the merged list is existing, unchanged, followed by the extra tags
\* without a match ignoring case in the list as it stands when they are
\* considered, in the order of extras; a list without tags equal ignoring
\* case stays one.
C13_AppendsUnknownTags ==
    pc = "merge_tags" =>
        /\ result = args_tags
                    \o TokensAt(shorthand_tags, NewTagPositions(args_tags, shorthand_tags), 1)
        /\ NoCaseDuplicates(args_tags) => NoCaseDuplicates(result)

\* C13: the second extra tag matches the first one, which was appended
C13_Witness ==
    /\ pc = "merge_tags"
    /\ args_tags = <<Str("ops")>>
    /\ shorthand_tags = <<Str("Work"), Str("work")>>
    /\ result = <<Str("ops"), Str("Work")>>

(***************************************************************************)
(* Properties of the markers and of the temporal phrases                   *)
(***************************************************************************)
\* the number a priority marker stands for
PriorityLevel(token) ==
    LET level == to_ascii_lowercase(Tail(token))
    IN  IF level = Str("high") THEN 5
        ELSE IF level = Str("medium") THEN 3
        ELSE IF level = Str("low") THEN 1
        ELSE 0

\* the greatest position of the set P of positions, which is not empty
LastOf(P) == CHOOSE i \in P : \A j \in P : j <= i

\* a token that starts with the sigil !
IsBang(token) == Len(token) > 0 /\ token[1] = "!"

\* C14: a token ! with a level name in any letter case sets the priority,
\* 5, 3, 1 or 0, (the last such token decides) and is no term; a token ! with
\* another suffix leaves the priority as it is and is a term, whole.
C14_PriorityMarkers ==
    pc = "parse_shorthand_with_when" =>
        LET known == {i \in DOMAIN raw : IsPriorityMarker(raw[i])}
            bangs == {i \in DOMAIN raw : IsBang(raw[i])}
        IN  /\ parsed.priority = IF known = {} THEN None
                                 ELSE Some(PriorityLevel(raw[LastOf(known)]))
            /\ TokensAt(parsed.terms, {k \in DOMAIN parsed.terms : IsBang(parsed.terms[k])}, 1)
               = TokensAt(raw, bangs \ known, 1)

\* C14: a level name in capitals before an unknown suffix
C14_Witness ==
    /\ pc = "parse_shorthand_with_when"
    /\ raw = <<Str("!Medium"), Str("!urgent")>>
    /\ parsed.priority = Some(3)
    /\ parsed.terms = <<Str("!urgent")>>

\* the filter a temporal word, in lower case, stands for
WhenOfWord(word) ==
    IF word = Str("today") THEN "Today"
    ELSE IF word = Str("tomorrow") THEN "Tomorrow"
    ELSE "ThisWeek"

\* the tokens of s in lower case
Lowered(s) == [i \in DOMAIN s |-> to_ascii_lowercase(s[i])]

\* C15: with the flag set, the pair 'this' 'week' is one phrase: when is
\* ThisWeek and both tokens are no terms; a single temporal word sets when to
\* its filter (the last one decides) and is no term; a 'this' that 'week' does
\* not follow is a term.
C15_TemporalPhrases ==
    (pc = "parse_shorthand_with_when" /\ flag) =>
        LET low == Lowered(raw)
            terms == Lowered(parsed.terms)
            words == {i \in DOMAIN raw : low[i] \in TemporalWords}
            this == {i \in DOMAIN raw : low[i] = LowerThis}
            phrase == {i \in this : i < Len(raw) /\ low[i + 1] = LowerWeek}
        IN  /\ parsed.when = IF words = {} THEN None ELSE Some(WhenOfWord(low[LastOf(words)]))
            /\ \A i \in phrase : (i + 1) \in words
            /\ \A k \in DOMAIN terms : terms[k] \notin TemporalWords
            /\ TokensAt(parsed.terms, {k \in DOMAIN terms : terms[k] = LowerThis}, 1)
               = TokensAt(raw, this \ phrase, 1)

\* C15: a 'THIS' alone stays, the phrase 'this Week' after it is consumed
C15_Witness ==
    /\ pc = "parse_shorthand_with_when"
    /\ flag
    /\ raw = <<Str("THIS"), Str("this"), Str("Week")>>
    /\ parsed.when = Some("ThisWeek")
    /\ parsed.terms = <<Str("THIS")>>

\* C16: without the flag, when is absent, the terms are the tokens that are
\* no priority, list or tag marker, temporal words included, in their order,
\* and priority, list and tags are those found with the flag set.
C16_AddKeepsTemporalWords ==
    (pc = "parse_shorthand_with_when" /\ ~ flag) =>
        LET markers == {i \in DOMAIN raw : \/ IsPriorityMarker(raw[i])
                                           \/ IsNamedMarker(raw[i], "~")
                                           \/ IsNamedMarker(raw[i], "#")}
            enabled == parse_shorthand(raw)
        IN  /\ parsed.when = None
            /\ parsed.terms = TokensAt(raw, DOMAIN raw \ markers, 1)
            /\ parsed.priority = enabled.priority
            /\ parsed.list = enabled.list
            /\ parsed.tags = enabled.tags

\* C16: a temporal word between two markers stays where it is
C16_Witness ==
    /\ pc = "parse_shorthand_with_when"
    /\ ~ flag
    /\ raw = <<Str("!High"), Str("This"), Str("WEEK")>>
    /\ parsed.when = None
    /\ parsed.priority = Some(5)
    /\ parsed.terms = <<Str("This"), Str("WEEK")>>

(***************************************************************************)
(* Properties of the relative phrases                                      *)
(***************************************************************************)
RECURSIVE DaysAfter(_, _)
\* the n-th day of the calendar after dt
DaysAfter(dt, n) == IF n = 0 THEN dt ELSE DaysAfter(DayAfter(dt), n - 1)

\* the next-week phrase stands at position i
IsNextWeekAt(tokens, i) ==
    i < Len(tokens) /\ SameWord(tokens[i], "next") /\ SameWord(tokens[i + 1], "week")

\* C17: 'next' directly followed by 'week' gives the Monday that lies after
\* today and at most seven days ahead, which is the Monday of the week after
\* the Monday-start week of today; the two tokens, and no other, leave the title.
C17_NextWeekMonday ==
    pc = "extract_due_date_from_input" =>
        \A i \in DOMAIN raw :
            (FirstCandidate(i) /\ IsNextWeekAt(raw, i)) =>
                /\ IsSome(date)
                /\ Zeller(Unwrap(date)) = 2
                /\ \E k \in 1..7 : Unwrap(date) = DaysAfter(today, k)
                /\ title = Outside(raw, i, 2)

\* C17: on a Monday the phrase gives the Monday seven days later, here over
\* the end of the year
C17_Witness ==
    /\ pc = "extract_due_date_from_input"
    /\ today = YMD(2027, 12, 27)
    /\ raw = <<Str("pay"), Str("Next"), Str("WEEK"), Str("rent")>>
    /\ date = Some(YMD(2028, 1, 3))
    /\ title = <<Str("pay"), Str("rent")>>

\* the weekday a name stands for, as Zeller numbers it (0 is Saturday), or -1
WeekdayOfName(token) ==
    IF SameWord(token, "sat") \/ SameWord(token, "saturday") THEN 0
    ELSE IF SameWord(token, "sun") \/ SameWord(token, "sunday") THEN 1
    ELSE IF SameWord(token, "mon") \/ SameWord(token, "monday") THEN 2
    ELSE IF SameWord(token, "tue") \/ SameWord(token, "tues") \/ SameWord(token, "tuesday") THEN 3
    ELSE IF SameWord(token, "wed") \/ SameWord(token, "wednesday") THEN 4
    ELSE IF SameWord(token, "thu") \/ SameWord(token, "thurs") \/ SameWord(token, "thursday") THEN 5
    ELSE IF SameWord(token, "fri") \/ SameWord(token, "friday") THEN 6
    ELSE -1

\* C18: 'today' gives today, 'tomorrow' the day after, a weekday name the
\* first day from today on, today included, that is that weekday, zero to six
\* days ahead; the keyword, and no other token, leaves the title.
C18_RelativeKeyword ==
    pc = "extract_due_date_from_input" =>
        \A i \in DOMAIN raw :
            FirstCandidate(i) =>
                /\ SameWord(raw[i], "today") =>
                      date = Some(today) /\ title = Outside(raw, i, 1)
                /\ SameWord(raw[i], "tomorrow") =>
                      date = Some(DayAfter(today)) /\ title = Outside(raw, i, 1)
                /\ WeekdayOfName(raw[i]) # -1 =>
                      /\ IsSome(date)
                      /\ Zeller(Unwrap(date)) = WeekdayOfName(raw[i])
                      /\ \E k \in 0..6 : Unwrap(date) = DaysAfter(today, k)
                      /\ Zeller(today) = WeekdayOfName(raw[i]) => date = Some(today)
                      /\ title = Outside(raw, i, 1)

\* C18: on the leap day, a Tuesday, the name of that weekday gives the day itself
C18_Witness ==
    /\ pc = "extract_due_date_from_input"
    /\ today = YMD(2028, 2, 29)
    /\ raw = <<Str("pay"), Str("Tues")>>
    /\ date = Some(YMD(2028, 2, 29))
    /\ title = <<Str("pay")>>

(***************************************************************************)
(* Properties of the month-year form and of the numeric tokens             *)
(***************************************************************************)
\* C19: a month name followed by a token of two or four digits, a bare year,
\* gives the first day of that month in that year, two digits yy being the
\* year 2000 + yy; the two tokens, and no other, leave the title.
C19_MonthYear ==
    pc = "extract_due_date_from_input" =>
        \A i \in DOMAIN raw :
            (/\ FirstCandidate(i) /\ i < Len(raw)
             /\ MonthNumber(raw[i]) # 0
             /\ YearNumber(raw[i + 1]) # -1) =>
                /\ date = Some(YMD(YearNumber(raw[i + 1]), MonthNumber(raw[i]), 1))
                /\ title = Outside(raw, i, 2)

\* C19: a month and a year of four digits after a word
C19_Witness ==
    /\ pc = "extract_due_date_from_input"
    /\ raw = <<Str("pay"), Str("feb"), Str("2027")>>
    /\ date = Some(YMD(2027, 2, 1))
    /\ title = <<Str("pay")>>

\* a token written exactly as YYYY-MM-DD: four, two and two digits
IsExactIso(token) ==
    LET parts == split(token, "-")
    IN  Len(parts) = 3 /\ IsField(parts[1], 4, 4) /\ IsField(parts[2], 2, 2)
                       /\ IsField(parts[3], 2, 2)

\* the date of three numbers when the calendar has that day, or none
DateIfExists(year, month, day) ==
    IF ExistsDay(YMD(year, month, day)) THEN Some(YMD(year, month, day)) ELSE None

\* what C20 says of the parts of a token that is split at its separator
SplitAsClaimed(parts) ==
    /\ (Len(parts) = 2 /\ IsDigits(parts[1]) /\ IsDigits(parts[2])) =>
          LET month == DigitsValue(parts[1])
              day == DigitsValue(parts[2])
          IN  /\ YearIsInferred(month, day)
              /\ (~ ExistsDay(YMD(today.year, month, day))
                  /\ ~ ExistsDay(YMD(today.year + 1, month, day))) => date = None
    /\ (Len(parts) = 3 /\ IsDigits(parts[1]) /\ IsDigits(parts[2])
        /\ YearNumber(parts[3]) # -1) =>
          date = DateIfExists(YearNumber(parts[3]), DigitsValue(parts[1]),
                              DigitsValue(parts[2]))
    /\ (Len(parts) \notin {2, 3} \/ \E k \in DOMAIN parts : ~ IsDigits(parts[k])) =>
          date = None

\* C20: a numeric token written exactly YYYY-MM-DD is that date; any other
\* token with a slash or with exactly two hyphens is split: two numbers are a
\* month and a day with the year inferred, three numbers a month, a day and a
\* year of two digits (2000 + yy) or four digits; another number of parts, a
\* part that is no number or a day that the calendar does not have give no date.
C20_NumericToken ==
    (pc = "extract_due_date_from_input" /\ Len(raw) = 1 /\ ~ HasSigil(raw[1])) =>
        LET token == raw[1]
        IN  /\ IsExactIso(token) =>
                  date = DateIfExists(DigitsValue(split(token, "-")[1]),
                                      DigitsValue(split(token, "-")[2]),
                                      DigitsValue(split(token, "-")[3]))
            /\ (~ IsExactIso(token) /\ "/" \in Range(token)) =>
                  SplitAsClaimed(split(token, "/"))
            /\ (~ IsExactIso(token) /\ "/" \notin Range(token) /\ CountChar(token, "-") = 2) =>
                  SplitAsClaimed(split(token, "-"))

(***************************************************************************)
(* The frame of the date recognizer                                        *)
(***************************************************************************)
\* C21: with a date, the title is the input without one span of one, two or
\* three neighbouring tokens, every other token kept in its order; without a
\* date, the title is the input, token by token.
C21_OneSpanRemoved ==
    pc = "extract_due_date_from_input" =>
        /\ IsSome(date) =>
              \E i \in DOMAIN raw, n \in 1..3 :
                  i + n - 1 <= Len(raw) /\ title = Outside(raw, i, n)
        /\ IsNone(date) => title = raw

\* C21: a span of three tokens leaves the line, the words around it stay
C21_Witness ==
    /\ pc = "extract_due_date_from_input"
    /\ raw = <<Str("pay"), Str("Feb"), Str("1"), Str("2027"), Str("rent")>>
    /\ date = Some(YMD(2027, 2, 1))
    /\ title = <<Str("pay"), Str("rent")>>

(***************************************************************************)
(* Properties of the list and tag markers                                  *)
(***************************************************************************)
\* the tokens of s that start with the character c
StartingWith(s, c) == TokensAt(s, {k \in DOMAIN s : s[k] # <<>> /\ s[k][1] = c}, 1)

\* C23: every token ~ with a name is no term and overwrites the list: the
\* list is the name of the last such token, and absent without one; a bare ~
\* is no list marker: it does not change the list and stays a term.
C23_LastListWins ==
    pc = "parse_shorthand_with_when" =>
        LET lists == {i \in DOMAIN raw : IsNamedMarker(raw[i], "~")}
        IN  /\ parsed.list = IF lists = {} THEN None ELSE Some(Tail(raw[LastOf(lists)]))
            /\ StartingWith(parsed.terms, "~") = TokensAt(raw, {i \in DOMAIN raw : raw[i] = <<"~">>}, 1)

\* C23: two list markers around a bare ~
C23_Witness ==
    /\ pc = "parse_shorthand_with_when"
    /\ raw = <<Str("~Work"), Str("~"), Str("~home")>>
    /\ parsed.list = Some(Str("home"))
    /\ parsed.terms = <<Str("~")>>

\* C24: the tags are the names of all tokens # with a name, in the order of
\* the input, in the letter case of the input and once per occurrence; a bare
\* # is no tag and stays a term; a temporal word behind # is a tag, also when
\* temporal phrases are recognized.
C24_TagsInOrder ==
    pc = "parse_shorthand_with_when" =>
        LET markers == TokensAt(raw, {i \in DOMAIN raw : IsNamedMarker(raw[i], "#")}, 1)
        IN  /\ parsed.tags = [k \in DOMAIN markers |-> Tail(markers[k])]
            /\ StartingWith(parsed.terms, "#") = TokensAt(raw, {i \in DOMAIN raw : raw[i] = <<"#">>}, 1)
            /\ (flag /\ \A i \in DOMAIN raw : raw[i] = Str("#today")) => parsed.when = None

\* C24: a tag twice, once in another letter case, with the flag set
C24_Witness ==
    /\ pc = "parse_shorthand_with_when"
    /\ flag
    /\ raw = <<Str("#ops"), Str("#Ops"), Str("#ops")>>
    /\ parsed.tags = <<Str("ops"), Str("Ops"), Str("ops")>>
    /\ parsed.terms = <<>>

(***************************************************************************)
(* Properties of the dates of the records                                  *)
(***************************************************************************)
\* the UTC day of an epoch value of digits: milliseconds when there are more
\* than ten digits (the last three are dropped), seconds otherwise
EpochDay(value) ==
    LET seconds == IF Len(value) > 10 THEN SubSeq(value, 1, Len(value) - 3) ELSE value
    IN  AddDays(YMD(1970, 1, 1), DigitsValue(seconds) \div 86400)

\* the date that the first ten characters write as YYYY-MM-DD, or none
WrittenDate(value) ==
    IF Len(value) >= 10 /\ IsExactIso(SubSeq(value, 1, 10))
    THEN DateIfExists(DigitsValue(SubSeq(value, 1, 4)), DigitsValue(SubSeq(value, 6, 7)),
                      DigitsValue(SubSeq(value, 9, 10)))
    ELSE None

\* a timestamp with an offset: the date, T, the time of day and Z or a signed offset
HasOffsetForm(value) ==
    /\ Len(value) >= 20 /\ value[11] = "T"
    /\ DigitsValue(SubSeq(value, 12, 13)) <= 23
    /\ value[Len(value)] = "Z" \/ \E k \in {5, 6} : value[Len(value) - k + 1] \in {"+", "-"}

\* C25: the first rule that succeeds decides: a value of digits is an epoch
\* value, milliseconds with more than ten digits and seconds otherwise; a
\* timestamp with an offset and a bare YYYY-MM-DD give the date they write;
\* any other value gives the date its first ten characters write; a value
\* that no rule matches gives none.
C25_RulesInOrder ==
    (pc = "task_due_date" /\ IsSome(task.due_date)) =>
        LET value == Unwrap(task.due_date)
        IN  /\ IsDigits(value) => result = Some(EpochDay(value))
            /\ (~ IsDigits(value) /\ HasOffsetForm(value)) =>
                  (IsSome(result) /\ result = WrittenDate(value))
            /\ (~ IsDigits(value) /\ ~ HasOffsetForm(value)) => result = WrittenDate(value)

\* C25: eleven digits are milliseconds: 17040672 seconds are in July 1970
C25_Witness ==
    /\ pc = "task_due_date"
    /\ task.due_date = Some(Str("17040672000"))
    /\ result = Some(YMD(1970, 7, 17))

(***************************************************************************)
(* Properties of the due date written for the API                          *)
(***************************************************************************)
\* date a is earlier than date b
Earlier(a, b) ==
    \/ a.year < b.year
    \/ a.year = b.year /\ a.month < b.month
    \/ a.year = b.year /\ a.month = b.month /\ a.day < b.day

\* local midnight of dt does not exist in the zone
NoMidnight(zone, dt) == zone.rule = "gap" /\ dt = zone.at

\* the offset from UTC, in minutes, of the first local midnight of dt
OffsetAtMidnight(zone, dt) ==
    IF zone.rule = "gap" /\ ~ Earlier(dt, zone.at) THEN zone.offset + 60
    ELSE IF zone.rule = "fold" /\ ~ Earlier(zone.at, dt) THEN zone.offset + 60
    ELSE zone.offset

\* the string writes, as YYYY-MM-DDTHH:MM:00.000+0000, the minute of the UTC
\* date that lies offset minutes before local midnight of dt
WritesMidnightOf(s, dt, offset) ==
    LET written == YMD(DigitsValue(SubSeq(s, 1, 4)), DigitsValue(SubSeq(s, 6, 7)),
                       DigitsValue(SubSeq(s, 9, 10)))
        minutes == DigitsValue(SubSeq(s, 12, 13)) * 60 + DigitsValue(SubSeq(s, 15, 16))
    IN  /\ Len(s) = 28
        /\ IsExactIso(SubSeq(s, 1, 10)) /\ s[11] = "T"
        /\ IsDigits(SubSeq(s, 12, 13)) /\ s[14] = ":" /\ IsDigits(SubSeq(s, 15, 16))
        /\ SubSeq(s, 17, 28) = Str(":00.000+0000")
        /\ minutes < 1440 /\ DigitsValue(SubSeq(s, 15, 16)) < 60
        /\ IF offset > 0 THEN DayAfter(written) = dt /\ minutes + offset = 1440
                         ELSE written = dt /\ minutes + offset = 0

\* C26: the result is the UTC instant of local midnight of the date, written
\* with the suffix +0000; of a midnight that exists twice it is the earliest
\* instant; it is absent exactly when the date has no local midnight.
C26_UtcOfLocalMidnight ==
    pc = "format_ticktick_due_date" =>
        /\ IsNone(result) <=> NoMidnight(tz, Unwrap(date))
        /\ IsSome(result) =>
              WritesMidnightOf(Unwrap(result), Unwrap(date), OffsetAtMidnight(tz, Unwrap(date)))

\* C26: two hours east of UTC, midnight of the day the clocks go back exists
\* twice; the first one is three hours ahead of UTC
C26_Witness ==
    /\ pc = "format_ticktick_due_date"
    /\ tz = Zone(120, "fold", ZoneChange)
    /\ date = Some(ZoneChange)
    /\ result = Some(Str("2028-03-25T21:00:00.000+0000"))

\* C27: reading the written date back gives the date: parse_task_date of the
\* result of format_ticktick_due_date is the date that was written, in every
\* zone, west of UTC, at UTC and east of it.
C27_RoundTrip ==
    (pc = "format_ticktick_due_date" /\ IsSome(result)) =>
        parse_task_date(Unwrap(result)) = date

\* what is left of the title of the command line: the date expression is
\* taken out, then the markers
LeftOfTitle == parse_task_add_shorthand(extract_due_date_from_input(args.title, today).title)

\* the date that the title of the command line names
DateOfTitle == extract_due_date_from_input(args.title, today).date

\* the date of the title is to be written and has no local midnight
CannotWrite ==
    /\ IsNone(args.due_date)
    /\ IsSome(DateOfTitle)
    /\ NoMidnight(tz, Unwrap(DateOfTitle))

GivenOrElse(given, taken) == IF IsSome(given) THEN given ELSE taken

\* the dates of the Task t are those of the command line, the date of the
\* title being used only when --due-date is absent
DatesAsGiven(t) ==
    IF IsNone(args.due_date) /\ IsSome(DateOfTitle)
    THEN /\ t.due_date = format_ticktick_due_date(Unwrap(DateOfTitle), tz)
         /\ t.start_date = GivenOrElse(args.start_date, t.due_date)
         /\ t.is_all_day = GivenOrElse(args.all_day, Some(TRUE))
    ELSE /\ t.due_date = args.due_date
         /\ t.start_date = args.start_date
         /\ t.is_all_day = args.all_day

\* C29: what is given on the command line wins over what the title holds.
\* The priority and the list of the title are used only when --priority and
\* --list are absent; the date of the title is used only when --due-date is
\* absent, and then start_date is the same string unless --start-date is given
\* and all_day is true unless --all-day is given; when --due-date is given the
\* date of the title is dropped and start_date and all_day stay as given, yet
\* the date expression is still taken out of the title.
C29_ExplicitWins ==
    pc = "task_add" =>
        /\ \A k \in 1..Len(result.calls) :
              result.calls[k].call = "resolve_project_from_list" =>
                  Some(result.calls[k].arg) = GivenOrElse(args.list, LeftOfTitle.list)
        /\ IsSome(result.task) =>
              /\ Unwrap(result.task).priority =
                    GivenOrElse(args.priority, GivenOrElse(LeftOfTitle.priority, Some(0)))
              /\ DatesAsGiven(Unwrap(result.task))
              /\ Unwrap(result.task).title = LeftOfTitle.terms

\* C29: every option is given and the title holds a priority, a list and a
\* date of its own: the Task has the values of the command line, and the
\* title has lost the date expression
C29_Witness ==
    /\ pc = "task_add"
    /\ args.title = <<Str("pay"), Str("rent"), Str("#Ops"), Str("!low"), Str("~home"),
                      Str("Friday")>>
    /\ args.priority = Some(1)
    /\ args.list = Some(Str("Errands"))
    /\ args.due_date = Some(Str("2026-03-09T00:00:00.000+0000"))
    /\ IsNone(args.start_date) /\ IsNone(args.all_day) /\ IsNone(args.project_id)
    /\ IsSome(DateOfTitle)
    /\ result.calls = <<Call("resolve_project_from_list", Str("Errands")),
                        Call("create_task", <<Str("pay"), Str("rent")>>)>>
    /\ IsSome(result.task)
    /\ Unwrap(result.task).title = <<Str("pay"), Str("rent")>>
    /\ Unwrap(result.task).priority = Some(1)
    /\ Unwrap(result.task).due_date = args.due_date
    /\ IsNone(Unwrap(result.task).start_date) /\ IsNone(Unwrap(result.task).is_all_day)

\* the query holds a pair of the key with the value
Carries(query, key, value) == \E k \in 1..Len(query) : query[k] = <<key, value>>

\* the query holds a pair of the key
CarriesKey(query, key) == \E k \in 1..Len(query) : query[k][1] = key

\* the first request received is on the callback path and carries a state
\* equal to the token issued and a code
FirstIsCallback ==
    /\ requests # <<>>
    /\ requests[1].parsed
    /\ requests[1].path = ExpectedPath
    /\ Carries(requests[1].query, "state", csrf_token)
    /\ CarriesKey(requests[1].query, "code")

\* login ended with an error
LoginFailed == pc = "login" /\ IsSome(outcome) /\ outcome # Some(Ok)

\* C28: a code is returned by wait_for_code, a code is sent to the token
\* endpoint and the config is saved only if the first request received is on
\* the callback path and carries a state equal to the token issued and a
\* code, and the code is one of that request.  When login has ended and the
\* first request was on another path, had no state or another one, had no
\* code, or never came, login has ended with an error, no code was sent to
\* the token endpoint and the stored config is as it was.
C28_OnlyValidCallback ==
    /\ (IsSome(auth_code) \/ pc = "exchange_code" \/ exchanges # <<>> \/ stored = Some(NewConfig)
            \/ outcome = Some(Ok)) =>
          /\ FirstIsCallback
          /\ IsSome(auth_code) /\ Carries(requests[1].query, "code", Unwrap(auth_code))
          /\ \A k \in 1..Len(exchanges) : exchanges[k] = Unwrap(auth_code)
    /\ (pc = "login" /\ ~ FirstIsCallback) =>
          /\ LoginFailed
          /\ exchanges = <<>>
          /\ stored # Some(NewConfig)
    /\ (LoginFailed /\ outcome \in {Some(TimedOut), Some(MissingState), Some(InvalidState),
                                    Some(MissingCode), Some(ServerFailed)}) =>
          exchanges = <<>> /\ stored # Some(NewConfig)

\* C28: the first request is a stray one with the state of nobody; the
\* redirect of the authorization server comes second and is never read: login
\* ends with an error and the config of the earlier login stays
C28_Witness ==
    /\ pc = "login"
    /\ csrf_token = "s1"
    /\ Len(requests) = 2
    /\ requests[1] = [parsed |-> TRUE, path |-> ExpectedPath,
                      query |-> <<<<"code", "c1">>, <<"state", "s2">>>>]
    /\ requests[2] = Redirect("s1")
    /\ outcome = Some(InvalidState)
    /\ exchanges = <<>>
    /\ stored = Some(OldConfig)

\* the header of the request, trimmed, the empty string when there is none
HeaderSent == trim(IF IsSome(broker_request.header) THEN Unwrap(broker_request.header) ELSE <<>>)

\* the fields that the route of the request reads
FieldsRead ==
    IF pc = "oauth_exchange" THEN {"code", "code_verifier", "redirect_uri"} ELSE {"refresh_token"}

\* the body is JSON with every field that the route reads, none of them blank
BodyComplete ==
    /\ IsSome(broker_request.body)
    /\ FieldsRead \subseteq DOMAIN Unwrap(broker_request.body)
    /\ \A f \in FieldsRead : trim(Unwrap(broker_request.body)[f]) # <<>>

\* C30: with BROKER_API_KEY set, a POST to /v1/oauth/exchange or
\* /v1/oauth/refresh without an x-broker-key header, or with one that differs
\* from the key, is answered 401 and nothing is sent to the token endpoint; a
\* request that passes this check and whose body is not JSON or has a blank
\* field is answered 400 and nothing is sent; the token endpoint is contacted
\* only when both checks pass.
C30_KeyThenBody ==
    pc \in {"oauth_exchange", "oauth_refresh"} =>
        LET keyed == IsSome(broker_key)
            refused == keyed /\ (IsNone(broker_request.header) \/ HeaderSent # Unwrap(broker_key))
        IN  /\ refused => response = Some(401) /\ upstream = <<>>
            /\ (~ refused /\ ~ BodyComplete) => response = Some(400) /\ upstream = <<>>
            /\ upstream # <<>> => ~ refused /\ BodyComplete
====
